---- MODULE Spec2Model ----
(***************************************************************************)
(* anki-tex: the markup parser (command scanner + note builder), the note  *)
(* equivalence and the watch session that synchronises a document with the *)
(* remote note store.                                                      *)
(*                                                                         *)
(* Strings are sequences of one-character strings.  Option<T> is a         *)
(* sequence of length 0 (None) or 1 (Some).  HashMap<String,String> is a   *)
(* function whose domain is the set of keys.                               *)
(***************************************************************************)
EXTENDS Integers, Sequences, FiniteSets, TLC

\* ------------------------------------------------------------------------
\* Bounds of the model
\* ------------------------------------------------------------------------
\* number of file-system events the environment delivers in one session
MaxEvents == 2
\* number of edits made directly in the remote store during one session
MaxRemoteEdits == 1
\* number of tokens of a token stream given to the note builder
MaxToks == 6
\* number of commands in a text given to get_content
MaxSnips == 3
\* number of edits made to a note before it is compared
MaxEdits == 2
\* number of calls of get_content that have returned before the one at hand
MaxCalls == 2

\* number of files in the watched directory
MaxChildren == 2

\* ------------------------------------------------------------------------
\* Strings
\* ------------------------------------------------------------------------
None == <<>>
Some(x) == <<x>>

WhiteSpace == {" ", "\n", "\t", "\r"}

\* the characters of s that are not white space
RemoveWhitespace(s) == SelectSeq(s, LAMBDA c : c \notin WhiteSpace)

StartsWithAt(text, i, lit) ==
    /\ i >= 1
    /\ i + Len(lit) - 1 <= Len(text)
    /\ SubSeq(text, i, i + Len(lit) - 1) = lit

\* str::replace from position i on: the non-overlapping occurrences of pat,
\* left to right
RECURSIVE ReplaceFrom(_, _, _, _)
ReplaceFrom(s, i, pat, rep) ==
    LET found == {j \in i..(Len(s) - Len(pat) + 1) :
                     s[j] = pat[1] /\ StartsWithAt(s, j, pat)}
    IN  IF found = {} THEN SubSeq(s, i, Len(s))
        ELSE LET j == CHOOSE x \in found : \A y \in found : x <= y
             IN  SubSeq(s, i, j - 1) \o rep
                 \o ReplaceFrom(s, j + Len(pat), pat, rep)

Replace(s, pat, rep) == ReplaceFrom(s, 1, pat, rep)

EntityGt == <<"&", "g", "t", ";">>
EntityLt == <<"&", "l", "t", ";">>

\* a canonical form that keeps the whitespace
MatchUnescapeKeepsSpace(s) ==
    Replace(Replace(s, EntityGt, <<">">>), EntityLt, <<"<">>)

MatchUnescape(s) ==
    Replace(Replace(RemoveWhitespace(s), EntityGt, <<">">>), EntityLt, <<"<">>)

RECURSIVE TrimStart(_)
TrimStart(s) ==
    IF s /= <<>> /\ Head(s) \in WhiteSpace THEN TrimStart(Tail(s)) ELSE s

RECURSIVE TrimEnd(_)
TrimEnd(s) ==
    IF s /= <<>> /\ s[Len(s)] \in WhiteSpace
    THEN TrimEnd(SubSeq(s, 1, Len(s) - 1)) ELSE s

Trim(s) == TrimEnd(TrimStart(s))

LatexOpen == <<"[", "l", "a", "t", "e", "x", "]">>
LatexClose == <<"[", "/", "l", "a", "t", "e", "x", "]">>

\* a value wrapped twice
fmt_content_twice(content) ==
    LatexOpen \o LatexOpen \o content \o LatexClose \o LatexClose

fmt_content(content) == LatexOpen \o content \o LatexClose

\* ------------------------------------------------------------------------
\* Notes and their equivalence
\* ------------------------------------------------------------------------
EmptyMap == [k \in {} |-> <<>>]

Note(id, deck, model, fields, tags, question) ==
    [id |-> id, deck |-> deck, model |-> model, fields |-> fields,
     tags |-> tags, question |-> question]

\* the pairs of every field, those with an empty value too
CanonFieldsAll(fields) ==
    { <<MatchUnescape(k), MatchUnescape(fields[k])>> : k \in DOMAIN fields }

CanonFields(fields) ==
    { <<MatchUnescape(k), MatchUnescape(fields[k])>> :
        k \in {x \in DOMAIN fields : fields[x] /= <<>>} }

\* a comparison that lets the pairs of the two notes differ by one pair
NoteEqNear(self, other) ==
    LET matching == /\ self.deck = other.deck
                    /\ self.model = other.model
                    /\ self.tags = other.tags
        a_fields == CanonFields(self.fields)
        b_fields == CanonFields(other.fields)
        fields_match ==
            Cardinality((a_fields \ b_fields) \cup (b_fields \ a_fields)) <= 1
    IN  matching /\ fields_match

\* a comparison that asks only that the pairs of self are pairs of other
NoteEqOneSided(self, other) ==
    LET matching == /\ self.deck = other.deck
                    /\ self.model = other.model
                    /\ self.tags = other.tags
        fields_match == CanonFields(self.fields) \subseteq CanonFields(other.fields)
    IN  matching /\ fields_match

NoteEq(self, other) ==
    LET matching == /\ self.deck = other.deck
                    /\ self.model = other.model
                    /\ self.tags = other.tags
        fields_match == CanonFields(self.fields) = CanonFields(other.fields)
    IN  matching /\ fields_match

\* ------------------------------------------------------------------------
\* Command scanner (mod re)
\* ------------------------------------------------------------------------
LitDeck == <<"\\", "d", "e", "c", "k", "{">>
LitModel == <<"\\", "m", "o", "d", "e", "l", "{">>
LitTag == <<"\\", "t", "a", "g", "{">>
LitNext == <<"\\", "n", "e", "x", "t">>
LitFields == <<"\\", "f", "i", "e", "l", "d", "s", "{">>
LitBeginField == <<"\\", "b", "e", "g", "i", "n", "{", "f", "i", "e", "l", "d", "}", "{">>
LitEndField == <<"\\", "e", "n", "d", "{", "f", "i", "e", "l", "d", "}">>

\* first position j >= i with text[j] = c, 0 when there is none
RECURSIVE IndexOfChar(_, _, _)
IndexOfChar(text, i, c) ==
    IF i > Len(text) THEN 0
    ELSE IF text[i] = c THEN i
    ELSE IndexOfChar(text, i + 1, c)

\* first position j >= i where lit occurs in text, 0 when there is none
RECURSIVE IndexOfLit(_, _, _)
IndexOfLit(text, i, lit) ==
    IF i + Len(lit) - 1 > Len(text) THEN 0
    ELSE IF StartsWithAt(text, i, lit) THEN i
    ELSE IndexOfLit(text, i + 1, lit)

NoMatch == [ok |-> FALSE, end |-> 0, cap |-> <<>>]

\* lit ([^\}]*) \}   -- the patterns DECK, MODEL and TAG
MatchArg(lit, text, i) ==
    IF ~StartsWithAt(text, i, lit) THEN NoMatch
    ELSE LET a == i + Len(lit)
             j == IndexOfChar(text, a, "}")
         IN  IF j = 0 THEN NoMatch
             ELSE [ok |-> TRUE, end |-> j + 1,
                   cap |-> <<SubSeq(text, a, j - 1)>>]

\* \\next
MatchNEXT(text, i) ==
    IF StartsWithAt(text, i, LitNext)
    THEN [ok |-> TRUE, end |-> i + Len(LitNext), cap |-> None]
    ELSE NoMatch

\* \\fields\{([^\}]*)\}\{([^\}]*)\}
MatchFIELD(text, i) ==
    LET m == MatchArg(LitFields, text, i)
    IN  IF ~m.ok THEN NoMatch
        ELSE IF ~StartsWithAt(text, m.end, <<"{">>) THEN NoMatch
        ELSE LET j == IndexOfChar(text, m.end + 1, "}")
             IN  IF j = 0 THEN NoMatch
                 ELSE [ok |-> TRUE, end |-> j + 1,
                       cap |-> m.cap \o <<SubSeq(text, m.end + 1, j - 1)>>]

\* \\begin\{field\}\{([^\}]*)\}([\s\S]*?)\\end\{field\}
MatchFIELD_ENV(text, i) ==
    LET m == MatchArg(LitBeginField, text, i)
    IN  IF ~m.ok THEN NoMatch
        ELSE LET k == IndexOfLit(text, m.end, LitEndField)
             IN  IF k = 0 THEN NoMatch
                 ELSE [ok |-> TRUE, end |-> k + Len(LitEndField),
                       cap |-> m.cap \o <<SubSeq(text, m.end, k - 1)>>]

Patterns == <<"NEXT", "DECK", "MODEL", "TAG", "FIELD", "FIELD_ENV">>

CmdOf(name) ==
    CASE name = "NEXT" -> "Next"
      [] name = "DECK" -> "Deck"
      [] name = "MODEL" -> "Model"
      [] name = "TAG" -> "Tag"
      [] OTHER -> "Field"

MatchAt(name, text, i) ==
    CASE name = "NEXT" -> MatchNEXT(text, i)
      [] name = "DECK" -> MatchArg(LitDeck, text, i)
      [] name = "MODEL" -> MatchArg(LitModel, text, i)
      [] name = "TAG" -> MatchArg(LitTag, text, i)
      [] name = "FIELD" -> MatchFIELD(text, i)
      [] OTHER -> MatchFIELD_ENV(text, i)

\* Regex::find_iter: the leftmost non-overlapping matches of one pattern,
\* each with its start (0-based, as in the source) and its capture groups;
\* the search goes on where the match before ended (every pattern starts
\* with a backslash)
RECURSIVE FindIter(_, _, _)
FindIter(name, text, i) ==
    LET starts == {j \in i..Len(text) :
                      text[j] = "\\" /\ MatchAt(name, text, j).ok}
    IN  IF starts = {} THEN <<>>
        ELSE LET j == CHOOSE x \in starts : \A y \in starts : x <= y
                 m == MatchAt(name, text, j)
             IN  <<[start |-> j - 1, cmd |-> CmdOf(name), cap |-> m.cap]>>
                 \o FindIter(name, text, m.end)

\* stable insertion of one location behind every location that does not
\* start after it
RECURSIVE InsertByStart(_, _)
InsertByStart(sorted, loc) ==
    IF sorted = <<>> THEN <<loc>>
    ELSE IF sorted[Len(sorted)].start <= loc.start THEN Append(sorted, loc)
    ELSE Append(InsertByStart(SubSeq(sorted, 1, Len(sorted) - 1), loc),
                sorted[Len(sorted)])

\* sort_by_cached_key(start): a stable sort
RECURSIVE SortByStart(_)
SortByStart(locations) ==
    IF locations = <<>> THEN <<>>
    ELSE InsertByStart(
            SortByStart(SubSeq(locations, 1, Len(locations) - 1)),
            locations[Len(locations)])

RECURSIVE AllLocations(_, _)
AllLocations(text, p) ==
    IF p > Len(Patterns) THEN <<>>
    ELSE FindIter(Patterns[p], text, 1) \o AllLocations(text, p + 1)

get_all_matches_unsorted(text) == AllLocations(text, 1)

\* a scanner that drops the matches that start inside a block-form field
get_all_matches_outermost(text) ==
    LET all == SortByStart(AllLocations(text, 1))
        inside(t) ==
            \E i \in 1..Len(all) :
                LET m == MatchFIELD_ENV(text, all[i].start + 1)
                IN  /\ all[i].cmd = "Field"
                    /\ m.ok
                    /\ all[i].start < t.start
                    /\ t.start < m.end - 1
    IN  SelectSeq(all, LAMBDA t : ~inside(t))

get_all_matches(text) == SortByStart(AllLocations(text, 1))

\* ------------------------------------------------------------------------
\* Note builder (the loop of get_content)
\* ------------------------------------------------------------------------
\* the accumulator before the first token
InitBuilder ==
    [current_deck |-> None, current_model |-> None, current_tags |-> <<>>,
     current_fields |-> EmptyMap, completed_notes |-> <<>>, err |-> ""]

Contains(seq, x) == \E i \in 1..Len(seq) : seq[i] = x

\* a Deck arm that keeps a deck already set
CmdDeckFirstWins(b, cap) ==
    IF b.current_deck /= None THEN b
    ELSE [b EXCEPT !.current_deck = Some(cap[1])]

CmdDeck(b, cap) == [b EXCEPT !.current_deck = Some(cap[1])]

CmdModel(b, cap) == [b EXCEPT !.current_model = Some(cap[1])]

CmdTagNoCheck(b, cap) == [b EXCEPT !.current_tags = Append(@, cap[1])]

CmdTag(b, cap) ==
    IF Contains(b.current_tags, cap[1])
    THEN [b EXCEPT !.err = "DuplicateTag"]
    ELSE [b EXCEPT !.current_tags = Append(@, cap[1])]

CmdFieldOverwrites(b, cap) ==
    [b EXCEPT !.current_fields = (cap[1] :> cap[2]) @@ @]

CmdField(b, cap) ==
    IF cap[1] \in DOMAIN b.current_fields
    THEN [b EXCEPT !.err = "DuplicateField"]
    ELSE [b EXCEPT !.current_fields = (cap[1] :> cap[2]) @@ @]

AfterNextTakesAll(b) ==
    [b EXCEPT !.current_deck = None, !.current_model = None,
              !.current_tags = <<>>, !.current_fields = EmptyMap]

\* the accumulator after a note was pushed: deck and model are cloned,
\* tags and fields are taken
AfterNext(b) ==
    [b EXCEPT !.current_tags = <<>>, !.current_fields = EmptyMap]

CmdNextModelFirst(b) ==
    IF b.current_model = None THEN [b EXCEPT !.err = "MissingModel"]
    ELSE IF b.current_deck = None THEN [b EXCEPT !.err = "MissingDeck"]
    ELSE IF DOMAIN b.current_fields = {} THEN [b EXCEPT !.err = "EmptyFields"]
    ELSE [AfterNext(b) EXCEPT !.completed_notes =
            Append(@, Note(None, b.current_deck[1], b.current_model[1],
                           b.current_fields, b.current_tags, None))]

CmdNext(b) ==
    IF b.current_deck = None THEN [b EXCEPT !.err = "MissingDeck"]
    ELSE IF b.current_model = None THEN [b EXCEPT !.err = "MissingModel"]
    ELSE IF DOMAIN b.current_fields = {} THEN [b EXCEPT !.err = "EmptyFields"]
    ELSE [AfterNext(b) EXCEPT !.completed_notes =
            Append(@, Note(None, b.current_deck[1], b.current_model[1],
                           b.current_fields, b.current_tags, None))]

\* a loop whose Tag arm puts the new tag in front of the others
ApplyTokenTagInFront(b, tok) ==
    CASE tok.cmd = "Deck" -> CmdDeck(b, tok.cap)
      [] tok.cmd = "Model" -> CmdModel(b, tok.cap)
      [] tok.cmd = "Tag" ->
            IF CmdTag(b, tok.cap).err /= "" THEN CmdTag(b, tok.cap)
            ELSE [b EXCEPT !.current_tags = <<tok.cap[1]>> \o @]
      [] tok.cmd = "Field" -> CmdField(b, tok.cap)
      [] OTHER -> CmdNext(b)

ApplyToken(b, tok) ==
    CASE tok.cmd = "Deck" -> CmdDeck(b, tok.cap)
      [] tok.cmd = "Model" -> CmdModel(b, tok.cap)
      [] tok.cmd = "Tag" -> CmdTag(b, tok.cap)
      [] tok.cmd = "Field" -> CmdField(b, tok.cap)
      [] OTHER -> CmdNext(b)

\* the for loop: the tokens in order, left at the first error
RECURSIVE RunTokens(_, _)
RunTokens(b, tokens) ==
    IF tokens = <<>> \/ b.err /= "" THEN b
    ELSE RunTokens(ApplyToken(b, Head(tokens)), Tail(tokens))

\* Result<Vec<Note>>: an error carries no notes
Ok(notes) == [err |-> "", notes |-> notes]
Err(e) == [err |-> e, notes |-> <<>>]

\* a return that takes an open note, and a text without notes, for errors
BuilderResultStrict(b) ==
    IF b.err /= "" THEN Err(b.err)
    ELSE IF DOMAIN b.current_fields /= {} \/ b.current_tags /= <<>>
         THEN Err("UnfinishedNote")
    ELSE IF b.completed_notes = <<>> THEN Err("NoNotes")
    ELSE Ok(b.completed_notes)

BuilderResult(b) == IF b.err /= "" THEN Err(b.err) ELSE Ok(b.completed_notes)

FOOTER == <<"\\", "e", "n", "d", "{", "d", "o", "c", "u", "m", "e", "n", "t", "}">>

FrameNoFooter(text, header) ==
    LET trimmed == Trim(text)
    IN  IF ~StartsWithAt(trimmed, 1, header)
        THEN [err |-> "BadHeader", body |-> <<>>]
        ELSE [err |-> "",
              body |-> SubSeq(trimmed, Len(header) + 1, Len(trimmed))]

\* trim, strip_prefix(header), strip_suffix(FOOTER): the text between the
\* header and the footer, or the error get_content returns with
Frame(text, header) ==
    LET trimmed == Trim(text)
    IN  IF ~StartsWithAt(trimmed, 1, header)
        THEN [err |-> "BadHeader", body |-> <<>>]
        ELSE LET rest == SubSeq(trimmed, Len(header) + 1, Len(trimmed))
                 n == Len(rest) - Len(FOOTER)
             IN  IF ~StartsWithAt(rest, n + 1, FOOTER)
                 THEN [err |-> "BadFooter", body |-> <<>>]
                 ELSE [err |-> "", body |-> SubSeq(rest, 1, n)]

get_content(text, header) ==
    LET framed == Frame(text, header)
    IN  IF framed.err /= "" THEN Err(framed.err)
        ELSE BuilderResult(RunTokens(InitBuilder,
                                     get_all_matches(framed.body)))

\* ------------------------------------------------------------------------
\* The documents of the model
\* ------------------------------------------------------------------------
\* the header the session requires (the content of header_template.tex)
Header == <<"%", "h", "\n">>

TDeck(name) == LitDeck \o name \o <<"}">>
TModel(name) == LitModel \o name \o <<"}">>
TTag(tag) == LitTag \o tag \o <<"}">>
TField(name, value) == LitFields \o name \o <<"}", "{">> \o value \o <<"}">>
TFieldEnv(name, value) == LitBeginField \o name \o <<"}">> \o value \o LitEndField
TNext == LitNext \o <<"\n">>
Doc(body) == Header \o body \o FOOTER \o <<"\n">>

\* one valid note
DocOne ==
    Doc(TDeck(<<"M">>) \o TModel(<<"B">>) \o TField(<<"F">>, <<"2">>) \o TNext)
\* two valid notes, the deck and the model stated once
DocTwo ==
    Doc(TDeck(<<"M">>) \o TModel(<<"B">>) \o TField(<<"F">>, <<"2">>) \o TNext
        \o TField(<<"F">>, <<"3">>) \o TNext)
\* two notes that differ in white space only
DocDup ==
    Doc(TDeck(<<"M">>) \o TModel(<<"B">>) \o TField(<<"F">>, <<"2">>) \o TNext
        \o TFieldEnv(<<"F">>, <<" ", "2", "\n">>) \o TNext)
\* a valid note, then a note in a deck the remote store does not have
DocBadDeck ==
    Doc(TDeck(<<"M">>) \o TModel(<<"B">>) \o TField(<<"F">>, <<"3">>) \o TNext
        \o TDeck(<<"U">>) \o TField(<<"F">>, <<"2">>) \o TNext)
\* a note of a model the remote store does not have
DocBadModel ==
    Doc(TDeck(<<"M">>) \o TModel(<<"X">>) \o TField(<<"F">>, <<"2">>) \o TNext)
\* a note with a field its model does not have
DocBadField ==
    Doc(TDeck(<<"M">>) \o TModel(<<"B">>) \o TField(<<"F">>, <<"2">>)
        \o TField(<<"Z">>, <<"2">>) \o TNext)
\* a note closed before its model is selected
DocNoModel ==
    Doc(TDeck(<<"M">>) \o TField(<<"F">>, <<"2">>) \o TNext)
\* the footer is missing
DocNoFooter ==
    Header \o TDeck(<<"M">>) \o TModel(<<"B">>) \o TField(<<"F">>, <<"2">>) \o TNext

\* a note with the tag generated in a deck the remote store does not have
\* at first, and a valid note behind it
DocTagged ==
    Doc(TDeck(<<"U">>) \o TModel(<<"B">>)
        \o TTag(<<"g", "e", "n", "e", "r", "a", "t", "e", "d">>)
        \o TField(<<"F">>, <<"2">>) \o TNext
        \o TDeck(<<"M">>) \o TField(<<"F">>, <<"3">>) \o TNext)

Docs == <<DocOne, DocTwo, DocDup, DocBadDeck, DocBadModel, DocBadField,
          DocNoModel, DocNoFooter, DocTagged>>

\* fasthash::metro::hash64 on the documents of the model: free of
\* collisions and different from the initial last_hash
Fingerprint(content) == CHOOSE i \in 1..Len(Docs) : Docs[i] = content

\* ------------------------------------------------------------------------
\* The watch session
\* ------------------------------------------------------------------------
VARIABLES
    where,          \* where the process is
    first,          \* the running pass is the one watch makes before its loop
    state,          \* struct State
    add_generated,  \* the flag --add-generated: a flag that is true by default
    file,           \* the watched file: which document is its content
    rx,             \* the events the watcher has sent and the loop has not taken
    remote,         \* the remote store: decks, models, notes, next note id
    content,        \* update_change: the document it has read
    notes,          \* update_change: the parsed notes the loop has not visited
    added,          \* update_change: its counter added_notes
    pass,           \* history: the running (or the last) pass
    failed,         \* history: the document the pass before read, when that
                    \* pass returned an error, else 0
    created,        \* history: the notes create_note has returned for
    events_sent,    \* history: number of events sent
    remote_edits    \* history: number of edits made in the remote store

\* update_change on a directory
VARIABLES
    dir,            \* the regular files read_dir yields for the watched path,
                    \* each one the document it holds; <<>> when the watched
                    \* path is a regular file
    child           \* how many children the for loop over read_dir has taken;
                    \* 0 when update_change is not in that loop

walkVars == <<dir, child>>

WalkIdle == dir = <<>> /\ child = 0

sessionVars == <<where, first, state, add_generated, file, rx, remote, content,
                 notes, added, pass, failed, created, events_sent,
                 remote_edits, walkVars>>

Generated == <<"g", "e", "n", "e", "r", "a", "t", "e", "d">>

\* the model "B" of the remote store and its fields
RemoteModels == (<<"B">> :> [field_names |-> << <<"F">>, <<"K">> >>])

\* a note another client adds to the remote store: the note of DocOne as a
\* session stores it
StoredOne(id, tags) ==
    [note_id |-> id, deck |-> <<"M">>, model |-> <<"B">>,
     fields |-> (<<"F">> :> fmt_content(<<"2">>)) @@ (<<"K">> :> <<>>),
     tags |-> tags, question |-> <<"2">>]

\* get_notes("*"): the notes of the remote store as Note records
RECURSIVE get_notes(_)
get_notes(stored) ==
    IF stored = <<>> THEN <<>>
    ELSE <<Note(Some(Head(stored).note_id), Head(stored).deck,
                Head(stored).model, Head(stored).fields, Head(stored).tags,
                Some(Head(stored).question))>> \o get_notes(Tail(stored))

NoPass ==
    [first |-> FALSE, content |-> 0, state0 |-> <<>>, result |-> "",
     calls |-> <<>>, skips |-> 0, remote_calls |-> 0, parsed |-> 0,
     stored |-> <<>>]

\* history: update_change is entered
BeginPass(st, isFirst) ==
    [first |-> isFirst, content |-> 0, state0 |-> st, result |-> "running",
     calls |-> <<>>, skips |-> 0, remote_calls |-> 0, parsed |-> 0,
     stored |-> <<>>]

SessionInit ==
    /\ where = "main"
    /\ first = FALSE
    /\ state = [deck_names |-> <<>>, models |-> EmptyMap,
                added_notes |-> <<>>, last_hash |-> 0]
    /\ add_generated = TRUE
    /\ file \in 1..Len(Docs)
    /\ rx = <<>>
    /\ remote = [decks |-> << <<"M">> >>, models |-> RemoteModels,
                 notes |-> <<>>, next_id |-> 1]
    /\ content = 0
    /\ notes = <<>>
    /\ added = 0
    /\ pass = NoPass
    /\ failed = 0
    /\ created = {}
    /\ events_sent = 0
    /\ remote_edits = 0

\* ------------------------------------------------------------------------
\* The note builder as a machine of its own: the loop of get_content, one
\* token of the stream per step
\* ------------------------------------------------------------------------
VARIABLES
    token,      \* the token the loop has applied last, None before the first
    pos,        \* number of tokens the loop has consumed
    builder,    \* current_deck, current_model, current_tags, current_fields,
                \* completed_notes and the error the loop returned with
    returned,   \* the Result get_content returned, None while it runs
    restated,   \* history: the Deck and Model commands applied since the note
                \* before the one in progress (or, behind a Next, before the
                \* one just completed) was completed
    input,      \* the text get_content was called with
    matches,    \* what re::get_all_matches returned, None before the call
    results     \* history: the text and the result of each call of get_content
                \* that has returned before the one at hand

builderVars == <<token, pos, builder, returned, restated, input, matches,
                 results>>

\* ------------------------------------------------------------------------
\* The comparison of two notes (impl PartialEq for Note)
\* ------------------------------------------------------------------------
VARIABLES
    note_a,     \* the note on the left of ==
    note_b,     \* the note on the right of ==
    verdict,    \* what note_a == note_b returned, None when it is not known
    edits,      \* number of edits made to note_b
    logged      \* the comparison that gave the verdict has logged the error
                \* "Id differs ... but contents are the same"

eqVars == <<note_a, note_b, verdict, edits, logged>>

parseVars == <<builderVars, eqVars>>

EqIdle ==
    /\ note_a = Note(None, <<>>, <<>>, EmptyMap, <<>>, None)
    /\ note_b = Note(None, <<>>, <<>>, EmptyMap, <<>>, None)
    /\ verdict = None
    /\ edits = 0
    /\ logged = FALSE

vars == <<sessionVars, parseVars>>

ParseIdle ==
    /\ token = None
    /\ pos = 0
    /\ builder = InitBuilder
    /\ returned = None
    /\ restated = {}
    /\ input = <<>>
    /\ matches = None
    /\ results = <<>>
    /\ EqIdle

\* ------------------------------------------------------------------------
\* update_change and watch
\* ------------------------------------------------------------------------
HashChangedAlways(new_hash, last_hash) == TRUE

HashChanged(new_hash, last_hash) == new_hash /= last_hash

IsKnownExact(added_notes, note) ==
    \E i \in 1..Len(added_notes) : added_notes[i] = note

\* state.added_notes.contains(&note)
IsKnown(added_notes, note) ==
    \E i \in 1..Len(added_notes) : NoteEq(added_notes[i], note)

\* the checks of a parsed note against the decks and models of the state
Invalid(st, note) ==
    IF ~Contains(st.deck_names, note.deck) THEN TRUE
    ELSE IF note.model \notin DOMAIN st.models THEN TRUE
    ELSE \E k \in DOMAIN note.fields :
            ~Contains(st.models[note.model].field_names, k)

\* the note as it is compared and sent: fields wrapped, tag added
Prepared(note, generated) ==
    [note EXCEPT
        !.fields = [k \in DOMAIN note.fields |-> fmt_content(note.fields[k])],
        !.tags = IF generated THEN Append(@, Generated) ELSE @]

PushNoteDropped(added_notes, note, id) == added_notes

\* state.added_notes after add_note returned id for note
PushNote(added_notes, note, id) == Append(added_notes, [note EXCEPT !.id = id])

\* the remote store's own duplicate test: a note of the same model with a
\* field of the same content
RemoteDuplicate(stored, note) ==
    \E i \in 1..Len(stored) :
        /\ stored[i].model = note.model
        /\ \E k \in DOMAIN note.fields \cap DOMAIN stored[i].fields :
              stored[i].fields[k] = note.fields[k]

\* State::new succeeds, update_change is called
WatchStart ==
    /\ where = "main"
    /\ state' = [deck_names |-> remote.decks, models |-> remote.models,
                 added_notes |-> get_notes(remote.notes), last_hash |-> 0]
    /\ where' = "update_change"
    /\ first' = TRUE
    /\ pass' = BeginPass(state', TRUE)
    /\ UNCHANGED <<add_generated, file, rx, remote, content, notes, added,
                   failed, created, events_sent, remote_edits>>
    /\ UNCHANGED parseVars
    /\ UNCHANGED walkVars

\* State::new fails: watch returns the error
WatchStateFails ==
    /\ where = "main"
    /\ where' = "exit_err"
    /\ UNCHANGED <<first, state, add_generated, file, rx, remote, content,
                   notes, added, pass, failed, created, events_sent,
                   remote_edits>>
    /\ UNCHANGED parseVars
    /\ UNCHANGED walkVars

\* a read that compares the hash and does not record it
ReadFileHashNotRecorded ==
    /\ where = "update_change"
    /\ content' = file
    /\ LET new_hash == Fingerprint(Docs[file])
       IN  IF HashChanged(new_hash, state.last_hash)
           THEN /\ state' = state
                /\ where' = "reload"
                /\ pass' = [pass EXCEPT !.content = file]
           ELSE /\ state' = state
                /\ where' = "returned"
                /\ pass' = [pass EXCEPT !.content = file, !.result = "skipped"]
    /\ UNCHANGED <<first, add_generated, file, rx, remote, notes, added, failed,
                   created, events_sent, remote_edits>>
    /\ UNCHANGED parseVars
    /\ UNCHANGED walkVars

\* read_to_string, hash64 and the comparison with last_hash
ReadFile ==
    /\ where = "update_change"
    /\ content' = file
    /\ LET new_hash == Fingerprint(Docs[file])
       IN  IF HashChanged(new_hash, state.last_hash)
           THEN /\ state' = [state EXCEPT !.last_hash = new_hash]
                /\ where' = "reload"
                /\ pass' = [pass EXCEPT !.content = file]
           ELSE /\ state' = state
                /\ where' = "returned"
                /\ pass' = [pass EXCEPT !.content = file, !.result = "skipped"]
    /\ UNCHANGED <<first, add_generated, file, rx, remote, notes, added, failed,
                   created, events_sent, remote_edits>>
    /\ UNCHANGED parseVars
    /\ UNCHANGED walkVars

\* state.reload() succeeds
ReloadOk ==
    /\ where = "reload"
    /\ state' = [state EXCEPT !.deck_names = remote.decks,
                              !.models = remote.models]
    /\ where' = "get_content"
    /\ pass' = [pass EXCEPT !.remote_calls = @ + 1, !.stored = remote.notes]
    /\ UNCHANGED <<first, add_generated, file, rx, remote, content, notes,
                   added, failed, created, events_sent, remote_edits>>
    /\ UNCHANGED parseVars
    /\ UNCHANGED walkVars

\* state.reload() fails, at get_deck_names or, the deck names assigned, at
\* load_models
ReloadFails ==
    /\ where = "reload"
    /\ \E decksLoaded \in BOOLEAN :
          state' = IF decksLoaded
                   THEN [state EXCEPT !.deck_names = remote.decks]
                   ELSE state
    /\ where' = "returned"
    /\ pass' = [pass EXCEPT !.remote_calls = @ + 1, !.result = "err",
                            !.stored = remote.notes]
    /\ UNCHANGED <<first, add_generated, file, rx, remote, content, notes, added,
                   failed, created, events_sent, remote_edits>>
    /\ UNCHANGED parseVars
    /\ UNCHANGED walkVars

\* get_content(content, &header)
GetContent ==
    /\ where = "get_content"
    /\ LET r == get_content(Docs[content], Header)
       IN  IF r.err /= ""
           THEN /\ where' = "returned"
                /\ pass' = [pass EXCEPT !.parsed = @ + 1, !.result = "err"]
                /\ UNCHANGED <<notes, added>>
           ELSE /\ where' = "notes"
                /\ pass' = [pass EXCEPT !.parsed = @ + 1]
                /\ notes' = r.notes
                /\ added' = 0
    /\ UNCHANGED <<first, state, add_generated, file, rx, remote, content,
                   failed, created, events_sent, remote_edits>>
    /\ UNCHANGED parseVars
    /\ UNCHANGED walkVars

\* a loop body that goes on with the next note at one of the three checks
NoteInvalidSkipped ==
    /\ where = "notes"
    /\ notes /= <<>>
    /\ Invalid(state, Head(notes))
    /\ notes' = Tail(notes)
    /\ pass' = [pass EXCEPT !.skips = @ + 1]
    /\ UNCHANGED <<where, first, state, add_generated, file, rx, remote,
                   content, added, failed, created, events_sent, remote_edits>>
    /\ UNCHANGED parseVars
    /\ UNCHANGED walkVars

\* the loop body returns at one of the three checks
NoteInvalid ==
    /\ where = "notes"
    /\ notes /= <<>>
    /\ Invalid(state, Head(notes))
    /\ where' = "returned"
    /\ pass' = [pass EXCEPT !.result = "invalid"]
    /\ UNCHANGED <<first, state, add_generated, file, rx, remote, content, notes,
                   added, failed, created, events_sent, remote_edits>>
    /\ UNCHANGED parseVars
    /\ UNCHANGED walkVars

\* the loop body continues: the note is among added_notes
NoteDuplicate ==
    /\ where = "notes"
    /\ notes /= <<>>
    /\ ~Invalid(state, Head(notes))
    /\ IsKnown(state.added_notes, Prepared(Head(notes), add_generated))
    /\ notes' = Tail(notes)
    /\ pass' = [pass EXCEPT !.skips = @ + 1]
    /\ UNCHANGED <<where, first, state, add_generated, file, rx, remote,
                   content, added, failed, created, events_sent, remote_edits>>
    /\ UNCHANGED parseVars
    /\ UNCHANGED walkVars

\* add_note returns Some(id): the remote store has created the note
NoteCreated ==
    /\ where = "notes"
    /\ notes /= <<>>
    /\ ~Invalid(state, Head(notes))
    /\ LET note == Prepared(Head(notes), add_generated)
           id == Some(remote.next_id)
       IN  /\ ~IsKnown(state.added_notes, note)
           /\ ~RemoteDuplicate(remote.notes, note)
           /\ remote' = [remote EXCEPT
                 !.notes = Append(@, [note_id |-> remote.next_id,
                     deck |-> note.deck, model |-> note.model,
                     fields |-> note.fields, tags |-> note.tags,
                     question |-> <<"?">>]),
                 !.next_id = @ + 1]
           /\ state' = [state EXCEPT !.added_notes = PushNote(@, note, id)]
           /\ pass' = [pass EXCEPT !.remote_calls = @ + 1,
                 !.calls = Append(@, [note |-> note, ret |-> "id", id |-> id])]
           /\ created' = created \cup {note}
    /\ added' = added + 1
    /\ notes' = Tail(notes)
    /\ UNCHANGED <<where, first, add_generated, file, rx, content, failed,
                   events_sent, remote_edits>>
    /\ UNCHANGED parseVars
    /\ UNCHANGED walkVars

\* a loop that counts the note add_note returned None for
NoteRejectedCounted ==
    /\ where = "notes"
    /\ notes /= <<>>
    /\ ~Invalid(state, Head(notes))
    /\ LET note == Prepared(Head(notes), add_generated)
       IN  /\ ~IsKnown(state.added_notes, note)
           /\ RemoteDuplicate(remote.notes, note)
           /\ state' = [state EXCEPT !.added_notes = PushNote(@, note, None)]
           /\ pass' = [pass EXCEPT !.remote_calls = @ + 1,
                 !.calls = Append(@, [note |-> note, ret |-> "none",
                                      id |-> None])]
           /\ created' = created \cup {note}
    /\ added' = added + 1
    /\ notes' = Tail(notes)
    /\ UNCHANGED <<where, first, add_generated, file, rx, remote, content,
                   failed, events_sent, remote_edits>>
    /\ UNCHANGED parseVars
    /\ UNCHANGED walkVars

\* add_note returns None: the remote store calls the note a duplicate
NoteRejected ==
    /\ where = "notes"
    /\ notes /= <<>>
    /\ ~Invalid(state, Head(notes))
    /\ LET note == Prepared(Head(notes), add_generated)
       IN  /\ ~IsKnown(state.added_notes, note)
           /\ RemoteDuplicate(remote.notes, note)
           /\ state' = [state EXCEPT !.added_notes = PushNote(@, note, None)]
           /\ pass' = [pass EXCEPT !.remote_calls = @ + 1,
                 !.calls = Append(@, [note |-> note, ret |-> "none",
                                      id |-> None])]
           /\ created' = created \cup {note}
    /\ notes' = Tail(notes)
    /\ UNCHANGED <<where, first, add_generated, file, rx, remote, content,
                   added, failed, events_sent, remote_edits>>
    /\ UNCHANGED parseVars
    /\ UNCHANGED walkVars

NoteCreateFailsRollback ==
    /\ where = "notes"
    /\ notes /= <<>>
    /\ ~Invalid(state, Head(notes))
    /\ LET note == Prepared(Head(notes), add_generated)
       IN  /\ ~IsKnown(state.added_notes, note)
           /\ pass' = [pass EXCEPT !.remote_calls = @ + 1, !.result = "err",
                 !.calls = Append(@, [note |-> note, ret |-> "err",
                                      id |-> None])]
    /\ where' = "returned"
    /\ state' = [state EXCEPT !.added_notes = pass.state0.added_notes]
    /\ UNCHANGED <<first, add_generated, file, rx, remote, content, notes,
                   added, failed, created, events_sent, remote_edits>>
    /\ UNCHANGED parseVars
    /\ UNCHANGED walkVars

\* add_note fails: update_change returns the error
NoteCreateFails ==
    /\ where = "notes"
    /\ notes /= <<>>
    /\ ~Invalid(state, Head(notes))
    /\ LET note == Prepared(Head(notes), add_generated)
       IN  /\ ~IsKnown(state.added_notes, note)
           /\ pass' = [pass EXCEPT !.remote_calls = @ + 1, !.result = "err",
                 !.calls = Append(@, [note |-> note, ret |-> "err",
                                      id |-> None])]
    /\ where' = "returned"
    /\ UNCHANGED <<first, state, add_generated, file, rx, remote, content, notes,
                   added, failed, created, events_sent, remote_edits>>
    /\ UNCHANGED parseVars
    /\ UNCHANGED walkVars

\* the loop is over: the summary is logged
Finish ==
    /\ where = "notes"
    /\ notes = <<>>
    /\ where' = "returned"
    /\ pass' = [pass EXCEPT !.result = "ok"]
    /\ UNCHANGED <<first, state, add_generated, file, rx, remote, content, notes,
                   added, failed, created, events_sent, remote_edits>>
    /\ UNCHANGED parseVars
    /\ UNCHANGED walkVars

\* history: update_change has returned and its locals are gone
EndPass ==
    /\ failed' = IF pass.result = "err" THEN pass.content ELSE 0
    /\ pass' = NoPass
    /\ content' = 0
    /\ notes' = <<>>
    /\ added' = 0

\* the pass before the loop has returned an error: `?` returns it from watch
WatchExits ==
    /\ where = "returned"
    /\ first
    /\ pass.result = "err"
    /\ where' = "exit_err"
    /\ UNCHANGED <<first, state, add_generated, file, rx, remote, content,
                   notes, added, pass, failed, created, events_sent,
                   remote_edits>>
    /\ UNCHANGED parseVars
    /\ UNCHANGED walkVars

\* the pass before the loop has returned Ok: the watcher is set up and the
\* loop waits for its events
WatchLoop ==
    /\ where = "returned"
    /\ first
    /\ pass.result /= "err"
    /\ where' = "rx"
    /\ first' = FALSE
    /\ EndPass
    /\ UNCHANGED <<state, add_generated, file, rx, remote, created,
                   events_sent, remote_edits>>
    /\ UNCHANGED parseVars
    /\ UNCHANGED walkVars

\* a pass of the loop has returned: an error is logged and the loop waits
\* for the next event
PassReturns ==
    /\ where = "returned"
    /\ ~first
    /\ where' = "rx"
    /\ EndPass
    /\ UNCHANGED <<first, state, add_generated, file, rx, remote, created,
                   events_sent, remote_edits>>
    /\ UNCHANGED parseVars
    /\ UNCHANGED walkVars

\* a loop that takes a Modify event while update_change is in its loop
EventModifyPreempts ==
    /\ where \in {"rx", "notes"}
    /\ rx /= <<>>
    /\ Head(rx) = "Modify"
    /\ rx' = Tail(rx)
    /\ where' = "update_change"
    /\ pass' = BeginPass(state, FALSE)
    /\ UNCHANGED <<first, state, add_generated, file, remote, content, notes,
                   added, failed, created, events_sent, remote_edits>>
    /\ UNCHANGED parseVars
    /\ UNCHANGED walkVars

\* the loop of watch takes a Modify event: update_change is called
EventModify ==
    /\ where = "rx"
    /\ rx /= <<>>
    /\ Head(rx) = "Modify"
    /\ rx' = Tail(rx)
    /\ where' = "update_change"
    /\ pass' = BeginPass(state, FALSE)
    /\ UNCHANGED <<first, state, add_generated, file, remote, content, notes,
                   added, failed, created, events_sent, remote_edits>>
    /\ UNCHANGED parseVars
    /\ UNCHANGED walkVars

\* the loop of watch takes an Access event: nothing is done
EventAccess ==
    /\ where = "rx"
    /\ rx /= <<>>
    /\ Head(rx) = "Access"
    /\ rx' = Tail(rx)
    /\ UNCHANGED <<where, first, state, add_generated, file, remote, content,
                   notes, added, pass, failed, created, events_sent,
                   remote_edits>>
    /\ UNCHANGED parseVars
    /\ UNCHANGED walkVars

\* the loop of watch takes a Remove event and the file is there again:
\* the file is watched anew and update_change is called
EventRemove ==
    /\ where = "rx"
    /\ rx /= <<>>
    /\ Head(rx) = "Remove"
    /\ rx' = Tail(rx)
    /\ where' = "update_change"
    /\ pass' = BeginPass(state, FALSE)
    /\ UNCHANGED <<first, state, add_generated, file, remote, content, notes,
                   added, failed, created, events_sent, remote_edits>>
    /\ UNCHANGED parseVars
    /\ UNCHANGED walkVars

\* ------------------------------------------------------------------------
\* The environment: the author's editor and the remote store's other users.
\* A pass reads the file once, when it starts, so an edit made while a pass
\* runs is seen as an edit made when the pass has returned: the events are
\* sent while the loop waits.
\* ------------------------------------------------------------------------
Watching == where = "rx"

\* the author saves another content
FileWrite ==
    /\ Watching
    /\ events_sent < MaxEvents
    /\ \E d \in 1..Len(Docs) :
          /\ d /= file
          /\ file' = d
    /\ rx' = Append(rx, "Modify")
    /\ events_sent' = events_sent + 1
    /\ UNCHANGED <<where, first, state, add_generated, remote, content,
                   notes, added, pass, failed, created, remote_edits>>
    /\ UNCHANGED parseVars
    /\ UNCHANGED walkVars

\* the author saves the file with the content it has
FileTouch ==
    /\ Watching
    /\ events_sent < MaxEvents
    /\ rx' = Append(rx, "Modify")
    /\ events_sent' = events_sent + 1
    /\ UNCHANGED <<where, first, state, add_generated, file, remote, content,
                   notes, added, pass, failed, created, remote_edits>>
    /\ UNCHANGED parseVars
    /\ UNCHANGED walkVars

\* the file is opened for reading
FileAccess ==
    /\ Watching
    /\ events_sent < MaxEvents
    /\ rx' = Append(rx, "Access")
    /\ events_sent' = events_sent + 1
    /\ UNCHANGED <<where, first, state, add_generated, file, remote, content,
                   notes, added, pass, failed, created, remote_edits>>
    /\ UNCHANGED parseVars
    /\ UNCHANGED walkVars

\* the editor replaces the file by a new one of the same content
FileReplace ==
    /\ Watching
    /\ events_sent < MaxEvents
    /\ rx' = Append(rx, "Remove")
    /\ events_sent' = events_sent + 1
    /\ UNCHANGED <<where, first, state, add_generated, file, remote, content,
                   notes, added, pass, failed, created, remote_edits>>
    /\ UNCHANGED parseVars
    /\ UNCHANGED walkVars

\* a deck is created in the remote store
RemoteCreateDeck ==
    /\ where \in {"main", "rx"}
    /\ remote_edits < MaxRemoteEdits
    /\ ~Contains(remote.decks, <<"U">>)
    /\ remote' = [remote EXCEPT !.decks = Append(@, <<"U">>)]
    /\ remote_edits' = remote_edits + 1
    /\ UNCHANGED <<where, first, state, add_generated, file, rx, content,
                   notes, added, pass, failed, created, events_sent>>
    /\ UNCHANGED parseVars
    /\ UNCHANGED walkVars

\* a note is added in the remote store by another client
RemoteAddNote ==
    /\ where \in {"main", "rx"}
    /\ remote_edits < MaxRemoteEdits
    /\ remote' = [remote EXCEPT
          !.notes = Append(@, StoredOne(remote.next_id,
                       IF add_generated THEN <<Generated>> ELSE <<>>)),
          !.next_id = @ + 1]
    /\ remote_edits' = remote_edits + 1
    /\ UNCHANGED <<where, first, state, add_generated, file, rx, content,
                   notes, added, pass, failed, created, events_sent>>
    /\ UNCHANGED parseVars
    /\ UNCHANGED walkVars

Init == SessionInit /\ ParseIdle /\ WalkIdle

Next ==
    \/ WatchStart
    \/ WatchStateFails
    \/ ReadFile
    \/ ReloadOk
    \/ ReloadFails
    \/ GetContent
    \/ NoteInvalid
    \/ NoteDuplicate
    \/ NoteCreated
    \/ NoteRejected
    \/ NoteCreateFails
    \/ Finish
    \/ WatchExits
    \/ WatchLoop
    \/ PassReturns
    \/ EventModify
    \/ EventAccess
    \/ EventRemove
    \/ FileWrite
    \/ FileTouch
    \/ FileAccess
    \/ FileReplace
    \/ RemoteCreateDeck
    \/ RemoteAddNote

Spec == Init /\ [][Next]_vars

\* ------------------------------------------------------------------------
\* The watcher's thread: it sends its events when the file changes, also
\* while update_change is running in the loop of watch
\* ------------------------------------------------------------------------
InPass == where \in {"update_change", "reload", "get_content", "notes", "returned"}

\* the author saves another content while a pass of the loop is running
FileWriteDuringPass ==
    /\ InPass
    /\ ~first
    /\ events_sent < MaxEvents
    /\ \E d \in 1..Len(Docs) :
          /\ d /= file
          /\ file' = d
    /\ rx' = Append(rx, "Modify")
    /\ events_sent' = events_sent + 1
    /\ UNCHANGED <<where, first, state, add_generated, remote, content,
                   notes, added, pass, failed, created, remote_edits>>
    /\ UNCHANGED parseVars
    /\ UNCHANGED walkVars

QueueInit == Init /\ file \in {1, 2}

QueueNext ==
    \/ WatchStart
    \/ WatchStateFails
    \/ ReadFile
    \/ ReloadOk
    \/ ReloadFails
    \/ GetContent
    \/ NoteInvalid
    \/ NoteDuplicate
    \/ NoteCreated
    \/ NoteRejected
    \/ NoteCreateFails
    \/ Finish
    \/ WatchExits
    \/ WatchLoop
    \/ PassReturns
    \/ EventModify
    \/ EventAccess
    \/ EventRemove
    \/ FileWrite
    \/ FileTouch
    \/ FileAccess
    \/ FileReplace
    \/ FileWriteDuringPass
    \/ RemoteCreateDeck
    \/ RemoteAddNote

SpecQueue == QueueInit /\ [][QueueNext]_vars

\* ------------------------------------------------------------------------
\* The watch session on a directory: update_change calls itself for every
\* child read_dir yields, with the one State of the session
\* ------------------------------------------------------------------------
\* the documents the files of the directory hold: DocOne, DocTwo, DocBadDeck
\* and DocNoFooter
WalkDocs == {1, 2, 4, 8}

RECURSIVE Dirs(_)
Dirs(n) ==
    IF n = 0 THEN {<<>>}
    ELSE LET shorter == Dirs(n - 1)
         IN  shorter \cup {Append(d, c) : d \in shorter, c \in WalkDocs}

\* file.is_dir(): read_dir, and the for loop calls update_change for the
\* first child; with no child the loop is over and Ok is returned
WalkDir ==
    /\ where = "update_change"
    /\ child = 0
    /\ IF dir = <<>>
       THEN /\ where' = "walked"
            /\ UNCHANGED <<file, child>>
       ELSE /\ child' = 1
            /\ file' = dir[1]
            /\ UNCHANGED where
    /\ UNCHANGED <<first, state, add_generated, rx, remote, content, notes,
                   added, pass, failed, created, events_sent, remote_edits,
                   dir>>
    /\ UNCHANGED parseVars

\* update_change on a child: the read, the hash and the comparison
WalkRead ==
    /\ child > 0
    /\ ReadFile

\* read_to_string returns an error: `?` returns it before anything is hashed
WalkReadFails ==
    /\ where = "update_change"
    /\ child > 0
    /\ where' = "returned"
    /\ pass' = [pass EXCEPT !.result = "err"]
    /\ UNCHANGED <<first, state, add_generated, file, rx, remote, content,
                   notes, added, failed, created, events_sent, remote_edits>>
    /\ UNCHANGED parseVars
    /\ UNCHANGED walkVars

\* update_change on a child has returned Ok: the for loop calls it for the
\* next child
WalkNext ==
    /\ where = "returned"
    /\ child > 0
    /\ pass.result /= "err"
    /\ child < Len(dir)
    /\ child' = child + 1
    /\ file' = dir[child + 1]
    /\ where' = "update_change"
    /\ pass' = BeginPass(state, first)
    /\ content' = 0
    /\ notes' = <<>>
    /\ added' = 0
    /\ UNCHANGED <<first, state, add_generated, rx, remote, failed, created,
                   events_sent, remote_edits, dir>>
    /\ UNCHANGED parseVars

\* update_change on a child has returned an error, which `?` returns from
\* the walk, or it has returned Ok for the last child
WalkReturns ==
    /\ where = "returned"
    /\ child > 0
    /\ pass.result = "err" \/ child = Len(dir)
    /\ where' = "walked"
    /\ child' = 0
    /\ UNCHANGED <<first, state, add_generated, file, rx, remote, content,
                   notes, added, pass, failed, created, events_sent,
                   remote_edits, dir>>
    /\ UNCHANGED parseVars

\* the walk before the loop has returned an error: watch returns it
WalkExits ==
    /\ where = "walked"
    /\ first
    /\ pass.result = "err"
    /\ where' = "exit_err"
    /\ UNCHANGED <<first, state, add_generated, file, rx, remote, content,
                   notes, added, pass, failed, created, events_sent,
                   remote_edits>>
    /\ UNCHANGED parseVars
    /\ UNCHANGED walkVars

\* the walk before the loop has returned Ok: the loop waits for its events
WalkLoop ==
    /\ where = "walked"
    /\ first
    /\ pass.result /= "err"
    /\ where' = "rx"
    /\ first' = FALSE
    /\ EndPass
    /\ UNCHANGED <<state, add_generated, file, rx, remote, created,
                   events_sent, remote_edits>>
    /\ UNCHANGED parseVars
    /\ UNCHANGED walkVars

\* a walk of the loop has returned: an error is logged and the loop waits
WalkPassReturns ==
    /\ where = "walked"
    /\ ~first
    /\ where' = "rx"
    /\ EndPass
    /\ UNCHANGED <<first, state, add_generated, file, rx, remote, created,
                   events_sent, remote_edits>>
    /\ UNCHANGED parseVars
    /\ UNCHANGED walkVars

\* the author saves another content in one of the files of the directory
WalkFileWrite ==
    /\ Watching
    /\ events_sent < MaxEvents
    /\ \E i \in 1..Len(dir), d \in WalkDocs :
          /\ d /= dir[i]
          /\ dir' = [dir EXCEPT ![i] = d]
    /\ rx' = Append(rx, "Modify")
    /\ events_sent' = events_sent + 1
    /\ UNCHANGED <<where, first, state, add_generated, file, remote, content,
                   notes, added, pass, failed, created, remote_edits, child>>
    /\ UNCHANGED parseVars

WalkInit ==
    /\ SessionInit
    /\ file = 1
    /\ ParseIdle
    /\ dir \in Dirs(MaxChildren)
    /\ child = 0

WalkNextStep ==
    \/ WatchStart
    \/ WatchStateFails
    \/ WalkDir
    \/ WalkRead
    \/ WalkReadFails
    \/ ReloadOk
    \/ ReloadFails
    \/ GetContent
    \/ NoteInvalid
    \/ NoteDuplicate
    \/ NoteCreated
    \/ NoteRejected
    \/ NoteCreateFails
    \/ Finish
    \/ WalkNext
    \/ WalkReturns
    \/ WalkExits
    \/ WalkLoop
    \/ WalkPassReturns
    \/ EventModify
    \/ FileTouch
    \/ WalkFileWrite
    \/ RemoteAddNote

SpecWalk == WalkInit /\ [][WalkNextStep]_vars

\* ------------------------------------------------------------------------
\* The builder machine
\* ------------------------------------------------------------------------
DeckArgs == {<<"M">>, <<"U">>}
ModelArgs == {<<"B">>, <<"X">>}
TagArgs == {<<"t">>, <<"u">>}
FieldArgs == {<< <<"F">>, <<"2">> >>, << <<"F">>, <<"3">> >>,
              << <<"K">>, <<"4">> >>}

Token(cmd, cap) == [start |-> pos, cmd |-> cmd, cap |-> cap]

\* the loop applies tok, and returns when the arm returns an error
Consume(tok) ==
    /\ token' = Some(tok)
    /\ pos' = pos + 1
    /\ builder' = ApplyToken(builder, tok)
    /\ returned' = IF builder'.err /= "" THEN Some(BuilderResult(builder'))
                   ELSE None
    /\ restated' =
          (IF token /= None /\ token[1].cmd = "Next" THEN {} ELSE restated)
          \cup (IF tok.cmd \in {"Deck", "Model"} THEN {tok.cmd} ELSE {})

StepDeck ==
    /\ returned = None
    /\ pos < MaxToks
    /\ \E a \in DeckArgs : Consume(Token("Deck", <<a>>))
    /\ UNCHANGED <<input, matches>>
    /\ UNCHANGED results
    /\ UNCHANGED eqVars
    /\ UNCHANGED sessionVars

StepModel ==
    /\ returned = None
    /\ pos < MaxToks
    /\ \E a \in ModelArgs : Consume(Token("Model", <<a>>))
    /\ UNCHANGED <<input, matches>>
    /\ UNCHANGED results
    /\ UNCHANGED eqVars
    /\ UNCHANGED sessionVars

StepTag ==
    /\ returned = None
    /\ pos < MaxToks
    /\ \E a \in TagArgs : Consume(Token("Tag", <<a>>))
    /\ UNCHANGED <<input, matches>>
    /\ UNCHANGED results
    /\ UNCHANGED eqVars
    /\ UNCHANGED sessionVars

StepField ==
    /\ returned = None
    /\ pos < MaxToks
    /\ \E a \in FieldArgs : Consume(Token("Field", a))
    /\ UNCHANGED <<input, matches>>
    /\ UNCHANGED results
    /\ UNCHANGED eqVars
    /\ UNCHANGED sessionVars

StepNext ==
    /\ returned = None
    /\ pos < MaxToks
    /\ Consume(Token("Next", None))
    /\ UNCHANGED <<input, matches>>
    /\ UNCHANGED results
    /\ UNCHANGED eqVars
    /\ UNCHANGED sessionVars

\* the stream is at its end: get_content returns the completed notes
StepReturn ==
    /\ returned = None
    /\ returned' = Some(BuilderResult(builder))
    /\ UNCHANGED <<token, pos, builder, restated>>
    /\ UNCHANGED <<input, matches>>
    /\ UNCHANGED results
    /\ UNCHANGED eqVars
    /\ UNCHANGED sessionVars

ParseInit ==
    /\ SessionInit
    /\ WalkIdle
    /\ file = 1
    /\ ParseIdle

ParseNext ==
    \/ StepDeck
    \/ StepModel
    \/ StepTag
    \/ StepField
    \/ StepNext
    \/ StepReturn

SpecParse == ParseInit /\ [][ParseNext]_vars

\* ------------------------------------------------------------------------
\* get_content on a text: the framing, the scanner, then the loop over the
\* tokens the scanner returned
\* ------------------------------------------------------------------------
\* the commands a text is made of: deck and model, deck and model with an
\* empty argument, a tag, a field in its inline form and in its block form,
\* the end of a note, a block field whose value holds the letters of a
\* \next, and a block field whose value holds those of a \tag and a \deck
Snippets ==
    { TDeck(<<"M">>) \o TModel(<<"B">>),
      TDeck(<<>>) \o TModel(<<>>),
      TTag(<<"t">>),
      TField(<<"F">>, <<"2">>),
      TFieldEnv(<<"F">>, <<"3">>),
      TNext,
      TFieldEnv(<<"K">>, LitNext),
      TFieldEnv(<<"K">>, TTag(<<"u">>) \o TDeck(<<"U">>)) }

RECURSIVE Bodies(_)
Bodies(n) ==
    IF n = 0 THEN {<<>>}
    ELSE LET shorter == Bodies(n - 1)
         IN  shorter \cup {b \o c : b \in shorter, c \in Snippets}

\* a body as a file holds it: framed, framed with white space around,
\* without the header, without the footer, with text behind the footer, with
\* text before the header
Framings(body) ==
    { Header \o body \o FOOTER,
      <<"\n">> \o Header \o body \o FOOTER \o <<" ", "\n">>,
      body \o FOOTER,
      Header \o body,
      Header \o body \o FOOTER \o <<"x">>,
      <<"x">> \o Header \o body \o FOOTER }

Inputs == UNION {Framings(b) : b \in Bodies(MaxSnips)}

\* strip_prefix or strip_suffix returns None: get_content returns the error
ScanFrameFails ==
    /\ matches = None
    /\ returned = None
    /\ Frame(input, Header).err /= ""
    /\ returned' = Some(Err(Frame(input, Header).err))
    /\ UNCHANGED <<token, pos, builder, restated, input, matches>>
    /\ UNCHANGED results
    /\ UNCHANGED eqVars
    /\ UNCHANGED sessionVars

\* re::get_all_matches(content) on the text between header and footer
ScanMatches ==
    /\ matches = None
    /\ returned = None
    /\ Frame(input, Header).err = ""
    /\ matches' = Some(get_all_matches(Frame(input, Header).body))
    /\ UNCHANGED <<token, pos, builder, returned, restated, input>>
    /\ UNCHANGED results
    /\ UNCHANGED eqVars
    /\ UNCHANGED sessionVars

\* the for loop takes the next token
ScanStep ==
    /\ matches /= None
    /\ returned = None
    /\ pos < Len(matches[1])
    /\ Consume(matches[1][pos + 1])
    /\ UNCHANGED <<input, matches>>
    /\ UNCHANGED results
    /\ UNCHANGED eqVars
    /\ UNCHANGED sessionVars

\* the for loop is over: get_content returns the completed notes
ScanReturn ==
    /\ matches /= None
    /\ returned = None
    /\ pos = Len(matches[1])
    /\ returned' = Some(BuilderResult(builder))
    /\ UNCHANGED <<token, pos, builder, restated, input, matches>>
    /\ UNCHANGED results
    /\ UNCHANGED eqVars
    /\ UNCHANGED sessionVars

ScanInit ==
    /\ SessionInit
    /\ WalkIdle
    /\ file = 1
    /\ token = None
    /\ pos = 0
    /\ builder = InitBuilder
    /\ returned = None
    /\ restated = {}
    /\ input \in Inputs
    /\ matches = None
    /\ results = <<>>
    /\ EqIdle

ScanNext ==
    \/ ScanFrameFails
    \/ ScanMatches
    \/ ScanStep
    \/ ScanReturn

SpecScan == ScanInit /\ [][ScanNext]_vars

\* ------------------------------------------------------------------------
\* get_content called again and again, on the same text and on others
\* ------------------------------------------------------------------------
\* the texts get_content is called with: the documents of the watched file
Texts == {Docs[i] : i \in 1..Len(Docs)}

\* a call that finds the accumulator as the call before left it
CallAgainKeepsAccumulator ==
    /\ returned /= None
    /\ Len(results) < MaxCalls
    /\ results' = Append(results, [text |-> input, result |-> returned[1]])
    /\ input' \in Texts
    /\ token' = None
    /\ pos' = 0
    /\ builder' = [builder EXCEPT !.err = ""]
    /\ returned' = None
    /\ restated' = {}
    /\ matches' = None
    /\ UNCHANGED eqVars
    /\ UNCHANGED sessionVars

\* get_content has returned and is called again: its accumulator and its
\* list of tokens are locals of the new call
CallAgain ==
    /\ returned /= None
    /\ Len(results) < MaxCalls
    /\ results' = Append(results, [text |-> input, result |-> returned[1]])
    /\ input' \in Texts
    /\ token' = None
    /\ pos' = 0
    /\ builder' = InitBuilder
    /\ returned' = None
    /\ restated' = {}
    /\ matches' = None
    /\ UNCHANGED eqVars
    /\ UNCHANGED sessionVars

ReparseInit ==
    /\ SessionInit
    /\ WalkIdle
    /\ file = 1
    /\ token = None
    /\ pos = 0
    /\ builder = InitBuilder
    /\ returned = None
    /\ restated = {}
    /\ input \in Texts
    /\ matches = None
    /\ results = <<>>
    /\ EqIdle

ReparseNext ==
    \/ ScanFrameFails
    \/ ScanMatches
    \/ ScanStep
    \/ ScanReturn
    \/ CallAgain

SpecReparse == ReparseInit /\ [][ReparseNext]_vars

\* ------------------------------------------------------------------------
\* Note == Note on two notes: note_a stays as it is, note_b is edited in the
\* ways a note of the file and its copy in Anki differ, then the two are
\* compared
\* ------------------------------------------------------------------------
EqKeyF == <<"F">>
EqKeyK == <<"K">>

\* the notes a comparison starts from: a note with two tags and one field,
\* the same with its tags in the other order, with a space behind its deck,
\* with an entity in its model, with another value, no field, one more
\* field, a field whose value is empty, and a field written with an entity
EqNotes ==
    LET lt    == (EqKeyF :> <<"<">>)
        base  == Note(Some(1), <<"M">>, <<"<", "B">>, lt, << <<"t">>, <<"u">> >>, None)
    IN  { base,
          [base EXCEPT !.id = None, !.tags = << <<"u">>, <<"t">> >>],
          [base EXCEPT !.id = None, !.deck = <<"M", " ">>],
          [base EXCEPT !.id = None, !.model = <<"&", "l", "t", ";", "B">>],
          [base EXCEPT !.id = None, !.fields = (EqKeyF :> <<"2">>)],
          [base EXCEPT !.id = None, !.fields = EmptyMap],
          [base EXCEPT !.id = None, !.fields = lt @@ (EqKeyK :> <<"4">>)],
          [base EXCEPT !.id = None, !.fields = lt @@ (EqKeyK :> <<>>)],
          [base EXCEPT !.id = None, !.fields = (EqKeyF :> EntityLt)] }

InsertAt(s, i, c) == SubSeq(s, 1, i) \o <<c>> \o SubSeq(s, i + 1, Len(s))

EscapeAt(s, i) ==
    SubSeq(s, 1, i - 1)
    \o (IF s[i] = "<" THEN EntityLt ELSE EntityGt)
    \o SubSeq(s, i + 1, Len(s))

\* the map with the key k renamed to k2
WithKey(fields, k, k2) ==
    [x \in (DOMAIN fields \ {k}) \cup {k2} |->
        IF x = k2 THEN fields[k] ELSE fields[x]]

\* the map without the key k
WithoutKey(fields, k) == [x \in DOMAIN fields \ {k} |-> fields[x]]

Edited(n) ==
    /\ edits < MaxEdits
    /\ edits' = edits + 1
    /\ note_b' = n
    /\ verdict' = None
    /\ logged' = FALSE
    /\ UNCHANGED <<note_a, builderVars, sessionVars>>

SetId ==
    \E v \in {None, Some(1), Some(2)} :
        /\ v /= note_b.id
        /\ Edited([note_b EXCEPT !.id = v])

SetQuestion ==
    \E q \in {None, Some(<<"q">>)} :
        /\ q /= note_b.question
        /\ Edited([note_b EXCEPT !.question = q])

PutEmptyField ==
    \E k \in {EqKeyF, EqKeyK} \ DOMAIN note_b.fields :
        Edited([note_b EXCEPT !.fields = @ @@ (k :> <<>>)])

DropEmptyField ==
    \E k \in DOMAIN note_b.fields :
        /\ note_b.fields[k] = <<>>
        /\ Edited([note_b EXCEPT !.fields = WithoutKey(@, k)])

SpaceInKey ==
    \E k \in DOMAIN note_b.fields, i \in 0..1, c \in {"\t"} :
        /\ InsertAt(k, i, c) \notin DOMAIN note_b.fields
        /\ Edited([note_b EXCEPT !.fields = WithKey(@, k, InsertAt(k, i, c))])

SpaceInValue ==
    \E k \in DOMAIN note_b.fields, c \in {" ", "\n"} :
        \E i \in 0..Len(note_b.fields[k]) :
            Edited([note_b EXCEPT !.fields[k] = InsertAt(@, i, c)])

EscapeInValue ==
    \E k \in DOMAIN note_b.fields :
        \E i \in 1..Len(note_b.fields[k]) :
            /\ note_b.fields[k][i] \in {"<", ">"}
            /\ Edited([note_b EXCEPT !.fields[k] = EscapeAt(@, i)])

\* the test in front of the error! of eq: both ids are Some and they differ
IdDiffers(self, other) ==
    /\ self.id /= None
    /\ other.id /= None
    /\ self.id /= other.id

\* a comparison that also asks for the same id
CompareWithId ==
    /\ verdict = None
    /\ verdict' = Some(NoteEq(note_a, note_b) /\ note_a.id = note_b.id)
    /\ logged' = IdDiffers(note_a, note_b)
    /\ UNCHANGED <<note_a, note_b, edits, builderVars, sessionVars>>

Compare ==
    /\ verdict = None
    /\ verdict' = Some(NoteEq(note_a, note_b))
    /\ logged' = IdDiffers(note_a, note_b)
    /\ UNCHANGED <<note_a, note_b, edits, builderVars, sessionVars>>

EqInit ==
    /\ SessionInit
    /\ WalkIdle
    /\ file = 1
    /\ token = None
    /\ pos = 0
    /\ builder = InitBuilder
    /\ returned = None
    /\ restated = {}
    /\ input = <<>>
    /\ matches = None
    /\ results = <<>>
    /\ note_a \in EqNotes
    /\ note_b \in EqNotes
    /\ verdict = None
    /\ edits = 0
    /\ logged = FALSE

EqNext ==
    \/ SetId
    \/ SetQuestion
    \/ PutEmptyField
    \/ DropEmptyField
    \/ SpaceInKey
    \/ SpaceInValue
    \/ EscapeInValue
    \/ Compare

SpecEq == EqInit /\ [][EqNext]_vars

\* ------------------------------------------------------------------------
\* Properties of a pass (Spec)
\* ------------------------------------------------------------------------
\* the notes a pass has appended: those of its create_note calls that
\* returned, each with the id returned for it
RECURSIVE Pushed(_)
Pushed(cs) ==
    IF cs = <<>> THEN <<>>
    ELSE (IF Head(cs).ret = "err" THEN <<>>
          ELSE <<[Head(cs).note EXCEPT !.id = Head(cs).id]>>)
         \o Pushed(Tail(cs))

HasEquivalent(added_notes, note) ==
    \E i \in 1..Len(added_notes) : NoteEq(added_notes[i], note)

\* C1: a pass that stops at a note that fails validation has made no
\* create_note call and has left the Known-Note Set as it was when the pass
\* started, wherever the invalid note stands in the document.
C1_InvalidNoteCreatesNothing ==
    pass.result = "invalid" =>
        /\ pass.calls = <<>>
        /\ state.added_notes = pass.state0.added_notes

\* C2: a pass that reads the content the pass before it read, when that
\* pass returned an error, is not cut short by the fingerprint comparison.
C2_RetryAfterError ==
    ~(/\ pass.result = "skipped"
      /\ failed /= 0
      /\ failed = pass.content)

\* C3: when the notes of a pass are tested for duplicates, every note the
\* remote store held when the pass refreshed its state is in the Known-Note
\* Set.
C3_KnownReflectsRemote ==
    where = "notes" =>
        \A i \in 1..Len(pass.stored) :
            \E j \in 1..Len(state.added_notes) :
                state.added_notes[j].id = Some(pass.stored[i].note_id)

\* C5: create_note is called for a note only when no member of the
\* Known-Note Set is equivalent to the note as it is sent (fields wrapped,
\* tag added); a valid note with an equivalent member is passed over without
\* a call and the loop goes on with the note behind it.
C5_CreateOnlyIfUnknown ==
    [][(where = "notes" /\ notes /= <<>>) =>
        LET note == Prepared(Head(notes), add_generated)
            known == HasEquivalent(state.added_notes, note)
        IN  /\ (Len(pass'.calls) > Len(pass.calls)) =>
                  /\ ~known
                  /\ pass'.calls[Len(pass'.calls)].note = note
            /\ (known /\ ~Invalid(state, Head(notes))) =>
                  /\ pass'.calls = pass.calls
                  /\ remote' = remote
                  /\ notes' = Tail(notes)
                  /\ where' = "notes"]_vars

\* a pass has passed over a known note and has gone on to create another
C5_Witness ==
    /\ pass.result = "ok"
    /\ pass.skips > 0
    /\ pass.calls /= <<>>

\* C6: a note create_note has returned for is in the Known-Note Set from
\* then on, and no later call of the session, in the same pass or in a later
\* one, is made for a note equivalent to it; two equivalent notes in one
\* document give one call.
C6_CreatedOnce ==
    /\ [](\A n \in created : HasEquivalent(state.added_notes, n))
    /\ [][Len(pass'.calls) = Len(pass.calls) + 1 =>
            /\ \A n \in created :
                  ~NoteEq(n, pass'.calls[Len(pass'.calls)].note)
            /\ pass'.calls[Len(pass'.calls)].ret /= "err" =>
                  state'.added_notes = Append(state.added_notes,
                      [pass'.calls[Len(pass'.calls)].note EXCEPT
                          !.id = pass'.calls[Len(pass'.calls)].id])]_vars

\* the pass over the document with two equivalent notes, none of them known
\* before, has made one call and has passed over the second note
C6_Witness ==
    /\ pass.result = "ok"
    /\ pass.content = 3
    /\ Len(pass.calls) = 1
    /\ pass.calls[1].ret = "id"
    /\ pass.skips = 1

\* C7: when a pass of watch has failed, the first one included, watch goes
\* on to wait for the next event: it does not return.
C7_WatchSurvivesFailure ==
    [][(where = "returned" /\ pass.result \in {"err", "invalid"}) =>
            where' = "rx"]_vars

\* C8: a pass that finds the fingerprint of the file equal to the recorded
\* one returns at once with success: no remote call, no parse, no
\* create_note call; deck names, models, Known-Note Set and the recorded
\* fingerprint stay as they are.
C8_UnchangedFileShortCircuit ==
    [][(where = "update_change"
        /\ Fingerprint(Docs[file]) = state.last_hash) =>
            /\ state' = state
            /\ remote' = remote
            /\ created' = created
            /\ pass'.remote_calls = 0
            /\ pass'.parsed = 0
            /\ pass'.calls = <<>>
            /\ pass'.result = "skipped"
            /\ where' = "returned"]_vars

\* a pass of the loop was cut short
C8_Witness ==
    /\ pass.result = "skipped"
    /\ where = "returned"
    /\ ~first
    /\ state = pass.state0

NextApplied == token /= None /\ token[1].cmd = "Next" /\ builder.err = ""

LastNote == builder.completed_notes[Len(builder.completed_notes)]

C10_NextChecksInOrder ==
    [][(pos' = pos + 1 /\ token'[1].cmd = "Next") =>
        IF builder.current_deck = None
        THEN returned' = Some([err |-> "MissingDeck", notes |-> <<>>])
        ELSE IF builder.current_model = None
        THEN returned' = Some([err |-> "MissingModel", notes |-> <<>>])
        ELSE IF DOMAIN builder.current_fields = {}
        THEN returned' = Some([err |-> "EmptyFields", notes |-> <<>>])
        ELSE /\ returned' = None
             /\ builder'.err = ""
             /\ builder'.completed_notes =
                   Append(builder.completed_notes,
                       Note(None, builder.current_deck[1],
                            builder.current_model[1], builder.current_fields,
                            builder.current_tags, None))]_vars

\* a Next has failed the parse behind a completed note: no note is returned
C10_Witness ==
    /\ token /= None
    /\ token[1].cmd = "Next"
    /\ builder.completed_notes /= <<>>
    /\ returned = Some([err |-> "EmptyFields", notes |-> <<>>])

\* C11: a Tag token fails the parse with DuplicateTag, and no note is
\* returned, when its tag is among the tags applied since the last Next;
\* else the tag is appended at the end of current_tags and nothing else of
\* the accumulator changes.  Behind a Next that completed a note no Tag
\* token fails, whatever the tags of the completed notes.
C11_TagTwiceFails ==
    [][(pos' = pos + 1 /\ token'[1].cmd = "Tag") =>
        LET tag == token'[1].cap[1]
        IN  /\ IF \E i \in 1..Len(builder.current_tags) :
                      builder.current_tags[i] = tag
               THEN returned' = Some([err |-> "DuplicateTag", notes |-> <<>>])
               ELSE /\ returned' = None
                    /\ builder' = [builder EXCEPT
                          !.current_tags = builder.current_tags \o <<tag>>]
            /\ NextApplied => returned' = None]_vars

\* a tag of the completed note is applied again behind the Next: the parse
\* goes on
C11_Witness ==
    /\ token /= None
    /\ token[1].cmd = "Tag"
    /\ returned = None
    /\ builder.err = ""
    /\ Len(builder.completed_notes) = 1
    /\ builder.completed_notes[1].tags = builder.current_tags
    /\ Len(builder.current_tags) = 1

\* ------------------------------------------------------------------------
\* Properties of get_content on a text (SpecScan)
\* ------------------------------------------------------------------------
\* C12: a Field token, of the inline form or of the block form, fails the
\* parse with DuplicateField, and no note is returned, when its name is a
\* key of current_fields, and the value stored under the name stays; else
\* the name is inserted with the value of the token, the other fields keep
\* their values, and deck, model, tags and completed notes are unchanged.
C12_FieldTwiceFails ==
    [][(pos' = pos + 1 /\ token'[1].cmd = "Field") =>
        LET name == token'[1].cap[1]
            value == token'[1].cap[2]
            before == builder.current_fields
            after == builder'.current_fields
        IN  IF name \in DOMAIN before
            THEN /\ returned' =
                       Some([err |-> "DuplicateField", notes |-> <<>>])
                 /\ after = before
            ELSE /\ returned' = None
                 /\ builder'.err = ""
                 /\ DOMAIN after = DOMAIN before \cup {name}
                 /\ after[name] = value
                 /\ \A k \in DOMAIN before : after[k] = before[k]
                 /\ builder'.current_deck = builder.current_deck
                 /\ builder'.current_model = builder.current_model
                 /\ builder'.current_tags = builder.current_tags
                 /\ builder'.completed_notes = builder.completed_notes]_vars

\* a field given in the inline form is given again in the block form: the
\* parse has failed and the inline value is the one stored
C12_Witness ==
    /\ returned = Some([err |-> "DuplicateField", notes |-> <<>>])
    /\ token[1].cap = << <<"F">>, <<"3">> >>
    /\ builder.current_fields[<<"F">>] = <<"2">>
    /\ builder.current_deck /= None

\* C13: the tokens the scanner returns are in the order of their start
\* positions, whatever pattern each one comes from; the loop takes them one
\* by one in that order, so that the accumulator is at every moment the
\* result of applying the tokens before the current position, in their
\* order, and a Next closes a note over the commands that stand before it
\* and behind the Next before it.
C13_TokensInBufferOrder ==
    /\ [](matches /= None =>
            /\ \A i, j \in 1..Len(matches[1]) :
                  i < j => matches[1][i].start <= matches[1][j].start
            /\ pos <= Len(matches[1])
            /\ builder = RunTokens(InitBuilder, SubSeq(matches[1], 1, pos)))
    /\ [][/\ pos' \in {pos, pos + 1}
          /\ pos' = pos + 1 => token' = Some(matches[1][pos + 1])]_vars

\* a note with a tag is completed by the last token of the text, a Next:
\* the scanner has found the Next first, the loop has taken it last
C13_Witness ==
    /\ matches /= None
    /\ returned /= None
    /\ returned[1].err = ""
    /\ Len(returned[1].notes) = 1
    /\ returned[1].notes[1].tags = << <<"t">> >>
    /\ pos = Len(matches[1])
    /\ token[1].cmd = "Next"

\* the text, its white space at both ends removed, starts with the header
\* and ends with the footer
WellFramed ==
    LET t == Trim(input)
    IN  /\ Len(t) >= Len(Header)
        /\ SubSeq(t, 1, Len(Header)) = Header
        /\ Len(t) >= Len(FOOTER)
        /\ SubSeq(t, Len(t) - Len(FOOTER) + 1, Len(t)) = FOOTER

\* C14: when the trimmed text does not start with the header, or does not
\* end with the footer, get_content returns a framing error and no note,
\* whatever stands in the text: the scanner is not called and no token is
\* applied.
C14_FramingErrorReturnsNothing ==
    /\ [](~WellFramed =>
            /\ matches = None
            /\ token = None
            /\ pos = 0
            /\ builder = InitBuilder
            /\ returned /= None =>
                  /\ returned[1].err \in {"BadHeader", "BadFooter"}
                  /\ returned[1].notes = <<>>)
    /\ [][~WellFramed => returned' /= None]_vars

\* a text without the header has given the error, and the same text behind
\* the header gives a note
C14_Witness ==
    /\ returned = Some([err |-> "BadHeader", notes |-> <<>>])
    /\ get_content(Header \o input, Header).err = ""
    /\ get_content(Header \o input, Header).notes /= <<>>

\* C26: no note that get_content has completed, and no note it returns, has
\* the empty string as its deck or as its model.
C26_DeckAndModelNotEmpty ==
    /\ \A i \in 1..Len(builder.completed_notes) :
          /\ builder.completed_notes[i].deck /= <<>>
          /\ builder.completed_notes[i].model /= <<>>
    /\ returned /= None
          => \A i \in 1..Len(returned[1].notes) :
                /\ returned[1].notes[i].deck /= <<>>
                /\ returned[1].notes[i].model /= <<>>

\* ------------------------------------------------------------------------
\* Properties of the comparison of two notes (SpecEq)
\* ------------------------------------------------------------------------
\* C15: a note is equivalent to itself, and the comparison gives the same
\* answer with its two notes exchanged, whatever their ids and whether or
\* not they have fields with an empty value; the answer the comparison
\* returned is that common answer.
C15_EquivalenceReflexiveSymmetric ==
    /\ NoteEq(note_a, note_a)
    /\ NoteEq(note_b, note_b)
    /\ NoteEq(note_a, note_b) = NoteEq(note_b, note_a)
    /\ verdict /= None => verdict = Some(NoteEq(note_b, note_a))

C15_Witness ==
    /\ verdict = Some(TRUE)
    /\ note_a.id /= None
    /\ note_b.id = None
    /\ note_a.fields /= note_b.fields
    /\ \E k \in DOMAIN note_b.fields : note_b.fields[k] = <<>>

\* the deck, the model and the tags of the two notes are the same strings
SameStructure == 
    /\ note_a.deck = note_b.deck
    /\ note_a.model = note_b.model
    /\ note_a.tags = note_b.tags

\* the step leaves every empty value of note_b empty
EmptyValuesKept ==
    \A k \in DOMAIN note_b.fields :
        note_b.fields[k] = <<>> => note_b'.fields[k] = <<>>

\* note_b before and after the step are equivalent, and the step does not
\* change what the comparison with note_a answers, on either side
StepKeepsEquivalence ==
    /\ NoteEq(note_b, note_b')
    /\ NoteEq(note_b', note_b)
    /\ NoteEq(note_a, note_b') = NoteEq(note_a, note_b)
    /\ NoteEq(note_b', note_a) = NoteEq(note_b, note_a)

\* C16 (as stated): a whitespace character put into a field name or a field
\* value, or a < or > of a value written as an entity, gives an equivalent
\* note; notes whose deck, model or tag sequence are not the same strings
\* (tags in another order among them) are not equivalent.
C16_WhitespaceAndEntitiesIgnored ==
    /\ [](~SameStructure => ~NoteEq(note_a, note_b))
    /\ [][(SpaceInKey \/ SpaceInValue \/ EscapeInValue)
            => StepKeepsEquivalence]_vars

\* C16 (amended): as above for a field name, for an entity, and for a
\* whitespace character put into a value that is not empty; put into an
\* empty value it makes the field count, with an empty canonical value.
C16_WhitespaceIgnoredInNonEmptyValues ==
    /\ [](~SameStructure => ~NoteEq(note_a, note_b))
    /\ [][(SpaceInKey \/ EscapeInValue \/ (SpaceInValue /\ EmptyValuesKept))
            => StepKeepsEquivalence]_vars
    /\ [][(SpaceInValue /\ ~EmptyValuesKept)
            => \E k \in DOMAIN note_b.fields :
                  /\ note_b.fields[k] = <<>>
                  /\ CanonFields(note_b'.fields)
                       = CanonFields(note_b.fields)
                           \cup {<<MatchUnescape(k), <<>>>>}]_vars

C16_Witness ==
    /\ verdict = Some(TRUE)
    /\ note_a.fields = (EqKeyF :> <<"<">>)
    /\ \E k \in DOMAIN note_b.fields :
          /\ k /= EqKeyF
          /\ MatchUnescape(k) = EqKeyF
          /\ \E i \in 1..Len(note_b.fields[k]) : note_b.fields[k][i] \in WhiteSpace
          /\ \E i \in 1..Len(note_b.fields[k]) : note_b.fields[k][i] = "&"

\* the note n with the id v and the question q
WithIdAndQuestion(n, v, q) == [n EXCEPT !.id = v, !.question = q]

\* C17: the answer of the comparison is the same whatever the id and the
\* question of each of the two notes (absent, present, the same or another
\* one); setting the id or the question of a note does not change it.
C17_VerdictIgnoresIdAndQuestion ==
    /\ [](\A v \in {None, Some(1), Some(2)}, q \in {None, Some(<<"q">>)} :
            /\ NoteEq(WithIdAndQuestion(note_a, v, q), note_b)
                 = NoteEq(note_a, note_b)
            /\ NoteEq(note_a, WithIdAndQuestion(note_b, v, q))
                 = NoteEq(note_a, note_b)
            /\ verdict /= None
                 => verdict = Some(NoteEq(WithIdAndQuestion(note_a, v, q), note_b)))
    /\ [][(SetId \/ SetQuestion)
            => /\ NoteEq(note_a, note_b') = NoteEq(note_a, note_b)
               /\ NoteEq(note_b', note_a) = NoteEq(note_b, note_a)]_vars

C17_Witness ==
    /\ verdict = Some(TRUE)
    /\ note_a.id = Some(1)
    /\ note_b.id = Some(2)
    /\ note_a.question = None
    /\ note_b.question /= None

\* the canonical pairs of the fields of n whose value is not empty
PairsOfNonEmpty(n) ==
    { <<MatchUnescape(k), MatchUnescape(n.fields[k])>> :
        k \in {x \in DOMAIN n.fields : Len(n.fields[x]) > 0} }

\* C18: a field whose value is the empty string is left out on both sides:
\* two notes are equivalent exactly when their deck, model and tag sequence
\* are the same and the canonical pairs of their fields with a non-empty
\* value are the same sets; putting in or taking out a field with an empty
\* value does not change the answer.
C18_EmptyFieldsExcluded ==
    /\ [](NoteEq(note_a, note_b)
            <=> (SameStructure
                 /\ PairsOfNonEmpty(note_a) = PairsOfNonEmpty(note_b)))
    /\ [](NoteEq(note_b, note_a)
            <=> (SameStructure
                 /\ PairsOfNonEmpty(note_a) = PairsOfNonEmpty(note_b)))
    /\ [][(PutEmptyField \/ DropEmptyField)
            => /\ NoteEq(note_b, note_b')
               /\ NoteEq(note_a, note_b') = NoteEq(note_a, note_b)
               /\ NoteEq(note_b', note_a) = NoteEq(note_b, note_a)]_vars

C18_Witness ==
    /\ verdict = Some(TRUE)
    /\ edits = 1
    /\ note_b.id = None
    /\ note_b.question = None
    /\ DOMAIN note_a.fields = {EqKeyF}
    /\ note_b.fields[EqKeyF] = note_a.fields[EqKeyF]
    /\ DOMAIN note_b.fields = {EqKeyF, EqKeyK}
    /\ note_b.fields[EqKeyK] = <<>>

\* ------------------------------------------------------------------------
\* Properties of the create_note calls of a pass (Spec)
\* ------------------------------------------------------------------------
\* the parsed note n is valid and, as it is sent, has no equivalent among
\* added_notes
NetNew(n) ==
    /\ ~Invalid(state, n)
    /\ ~HasEquivalent(state.added_notes, Prepared(n, add_generated))

\* the call carries the deck and the model of the parsed note n, its tags
\* with the tags of the configuration behind them, and its fields with each
\* value between the two markers
CallCarries(call, n, tags) ==
    /\ call.note.deck = n.deck
    /\ call.note.model = n.model
    /\ call.note.tags = tags
    /\ DOMAIN call.note.fields = DOMAIN n.fields
    /\ \A k \in DOMAIN n.fields :
          call.note.fields[k] = LatexOpen \o n.fields[k] \o LatexClose

\* the loop of update_change takes the note at the head of notes
NoteStep ==
    /\ where = "notes"
    /\ notes /= <<>>
    /\ notes' /= notes \/ where' /= where

\* a step of the loop on a net-new note makes one call that carries it, no
\* other step makes a call, and the loop takes each note once
OneCallPerNoteTaken(tags(_)) ==
    /\ (NoteStep /\ NetNew(Head(notes)))
          => /\ Len(pass'.calls) = Len(pass.calls) + 1
             /\ SubSeq(pass'.calls, 1, Len(pass.calls)) = pass.calls
             /\ CallCarries(pass'.calls[Len(pass'.calls)], Head(notes),
                            tags(Head(notes)))
    /\ ~(NoteStep /\ NetNew(Head(notes)))
          => \/ pass'.calls = pass.calls
             \/ pass'.calls = <<>> /\ pass'.result \in {"", "running"}
    /\ NoteStep
          => \/ notes' = Tail(notes) /\ where' = "notes"
             \/ notes' = notes /\ where' = "returned"

TagsAsPrepared(n) == Prepared(n, add_generated).tags

TagsThenGenerated(n) == Append(n.tags, Generated)

\* C19 (as stated): every net-new note of the pass has its one call, which
\* carries its deck, model, tags and wrapped fields, and no other note has a
\* call: when update_change returns, no net-new note of the file is left
\* without a call.
C19_OneCreatePerNetNewNote ==
    /\ [][OneCallPerNoteTaken(TagsAsPrepared)]_vars
    /\ [](where = "returned"
            => \A i \in 1..Len(notes) :
                  NetNew(notes[i])
                    => /\ i = 1
                       /\ pass.calls /= <<>>
                       /\ CallCarries(pass.calls[Len(pass.calls)], notes[i],
                                      TagsAsPrepared(notes[i])))

\* C19 (amended): every net-new note the loop takes has its one call, which
\* carries its deck, model, its tags followed by the tag generated, and its
\* wrapped fields; no other note has a call; a pass that returns Ok after
\* the loop has taken every note, and the notes a pass leaves are those
\* behind an invalid note or behind a call that failed.
C19_OneCreatePerNetNewNoteTaken ==
    /\ [][OneCallPerNoteTaken(TagsThenGenerated)]_vars
    /\ [](where = "returned" /\ pass.result = "ok" => notes = <<>>)
    /\ [](where = "returned" /\ notes /= <<>>
            => \/ pass.result = "invalid" /\ Invalid(state, Head(notes))
               \/ /\ pass.result = "err"
                  /\ pass.calls /= <<>>
                  /\ pass.calls[Len(pass.calls)].ret = "err"
                  /\ CallCarries(pass.calls[Len(pass.calls)], Head(notes),
                                 TagsThenGenerated(Head(notes))))

C19_Witness ==
    /\ where = "returned"
    /\ pass.result = "ok"
    /\ pass.skips = 1
    /\ Len(pass.calls) = 1
    /\ pass.calls[1].ret = "id"
    /\ pass.calls[1].note.tags = <<Generated>>
    /\ pass.calls[1].note.fields[<<"F">>] = LatexOpen \o <<"2">> \o LatexClose

\* ------------------------------------------------------------------------
\* Properties of the end of the token stream (SpecParse)
\* ------------------------------------------------------------------------
\* the stream ends here: no arm has returned an error and get_content
\* leaves its loop
StreamEnds == returned = None /\ returned' /= None /\ builder'.err = ""

\* C20: when the stream ends, whatever the accumulator holds of a note that
\* no \next has closed, get_content returns Ok with the notes the \next
\* commands have pushed, in their order, and nothing else; with no note
\* pushed it returns Ok with the empty list. The list grows by one note, at
\* its end, at each \next that succeeds, and by nothing else.
C20_OpenNoteIsDropped ==
    /\ [][StreamEnds
            => /\ returned' = Some([err |-> "", notes |-> builder.completed_notes])
               /\ builder' = builder]_vars
    /\ [][builder'.completed_notes /= builder.completed_notes
            => /\ token'[1].cmd = "Next"
               /\ builder.current_deck /= None
               /\ builder.current_model /= None
               /\ builder'.completed_notes
                    = Append(builder.completed_notes,
                             Note(None, builder.current_deck[1],
                                  builder.current_model[1],
                                  builder.current_fields,
                                  builder.current_tags, None))]_vars
    /\ [](returned /= None /\ returned[1].err = ""
            => returned[1].notes = builder.completed_notes)

C20_Witness ==
    /\ returned /= None
    /\ returned[1].err = ""
    /\ Len(returned[1].notes) = 1
    /\ DOMAIN builder.current_fields /= {}
    /\ builder.current_tags /= <<>>
    /\ \A k \in DOMAIN builder.current_fields :
          k \notin DOMAIN returned[1].notes[1].fields

\* ------------------------------------------------------------------------
\* Properties of the notes a parse returns (SpecParse)
\* ------------------------------------------------------------------------
\* the loop has applied a token of the command cmd and its arm returned no
\* error
Applied(cmd) ==
    /\ pos' = pos + 1
    /\ token'[1].cmd = cmd
    /\ builder'.err = ""

Distinct(seq) ==
    \A i, j \in 1..Len(seq) : i /= j => seq[i] /= seq[j]

\* C21: every note of a parse that succeeds has the deck and the model that
\* were set when its \next was applied, at least one field, tags that are
\* pairwise distinct and in the order of their \tag tokens, no id and no
\* question; each \next that is applied adds one note behind the notes of
\* the \next tokens before it.
C21_ReturnedNotesAreComplete ==
    /\ [](Distinct(builder.current_tags)
          /\ \A i \in 1..Len(builder.completed_notes) :
                LET note == builder.completed_notes[i]
                IN  /\ DOMAIN note.fields /= {}
                    /\ Distinct(note.tags)
                    /\ note.id = None
                    /\ note.question = None)
    /\ [](returned /= None /\ returned[1].err = ""
            => returned[1].notes = builder.completed_notes)
    /\ [][Applied("Tag")
            => builder'.current_tags
                 = Append(builder.current_tags, token'[1].cap[1])]_vars
    /\ [][Applied("Next")
            => /\ builder.current_deck /= None
               /\ builder.current_model /= None
               /\ Len(builder'.completed_notes)
                    = Len(builder.completed_notes) + 1
               /\ SubSeq(builder'.completed_notes, 1,
                         Len(builder.completed_notes))
                    = builder.completed_notes
               /\ LET note == builder'.completed_notes[
                                  Len(builder'.completed_notes)]
                  IN  /\ note.deck = builder.current_deck[1]
                      /\ note.model = builder.current_model[1]
                      /\ note.tags = builder.current_tags
                      /\ note.fields = builder.current_fields]_vars
    /\ [][Len(builder'.completed_notes) /= Len(builder.completed_notes)
            => Applied("Next")]_vars

C21_Witness ==
    /\ returned /= None
    /\ returned[1].err = ""
    /\ Len(returned[1].notes) = 1
    /\ returned[1].notes[1].tags = << <<"u">>, <<"t">> >>
    /\ returned[1].notes[1].deck = <<"U">>

\* the loop takes a token of the command cmd
Taken(cmd) == pos' = pos + 1 /\ token'[1].cmd = cmd

\* C22: a \deck or \model token is never an error, whatever is set already:
\* it puts its argument in the place of the current deck or model and
\* leaves the tags, the fields and everything else as they are; no other
\* token changes the deck or the model, so that the note a \next pushes has
\* the argument of the last \deck and of the last \model before it.
C22_DeckAndModelLastWriteWins ==
    /\ [][Taken("Deck")
            => /\ returned' = None
               /\ builder' = [builder EXCEPT
                                 !.current_deck = Some(token'[1].cap[1])]]_vars
    /\ [][Taken("Model")
            => /\ returned' = None
               /\ builder' = [builder EXCEPT
                                 !.current_model = Some(token'[1].cap[1])]]_vars
    /\ [][~Taken("Deck") => builder'.current_deck = builder.current_deck]_vars
    /\ [][~Taken("Model") => builder'.current_model = builder.current_model]_vars
    /\ [][Applied("Next")
            => /\ builder'.completed_notes[Len(builder'.completed_notes)].deck
                    = builder.current_deck[1]
               /\ builder'.completed_notes[Len(builder'.completed_notes)].model
                    = builder.current_model[1]]_vars

\* a deck that was set, and used by a note, is set again to another name
C22_Witness ==
    /\ token /= None
    /\ token[1].cmd = "Deck"
    /\ Len(builder.completed_notes) = 1
    /\ builder.completed_notes[1].deck = <<"M">>
    /\ builder.current_deck = Some(<<"U">>)
    /\ builder.err = ""

\* C28: a comparison logs that the ids differ only when both notes have an
\* id, the ids differ, and the comparison answers that the notes are
\* equivalent.
C28_IdErrorOnlyForEquivalentNotes ==
    (verdict /= None /\ logged)
        => /\ note_a.id /= None
           /\ note_b.id /= None
           /\ note_a.id /= note_b.id
           /\ verdict = Some(TRUE)

\* C29: equivalence is transitive: a third note equivalent to one of two
\* equivalent notes is equivalent to the other, so that the test of a note
\* against added_notes gives the same answer whichever of two equivalent
\* notes added_notes holds.
C29_EquivalenceTransitive ==
    LET ab == NoteEq(note_a, note_b)
        ba == NoteEq(note_b, note_a)
    IN  \A c \in EqNotes :
            LET ac == NoteEq(note_a, c)
                bc == NoteEq(note_b, c)
                ca == NoteEq(c, note_a)
                cb == NoteEq(c, note_b)
            IN  /\ (ab /\ bc) => ac
                /\ (ca /\ ab) => cb
                /\ (ba /\ ac) => bc
                /\ ab => ac = bc

\* three notes with three different field maps that are equivalent
C29_Witness ==
    /\ verdict = Some(TRUE)
    /\ note_a.fields /= note_b.fields
    /\ \E c \in EqNotes :
          /\ c.fields /= note_a.fields
          /\ c.fields /= note_b.fields
          /\ NoteEq(note_b, c)
          /\ NoteEq(note_a, c)

\* ------------------------------------------------------------------------
\* Properties of get_content called again (SpecReparse)
\* ------------------------------------------------------------------------
\* C23: two calls of get_content with the same text return the same result,
\* the same notes field by field or the same error, whatever the calls in
\* between were called with.
C23_ParseIsDeterministic ==
    /\ \A i, j \in 1..Len(results) :
          results[i].text = results[j].text
            => results[i].result = results[j].result
    /\ returned /= None
          => \A i \in 1..Len(results) :
                results[i].text = input => results[i].result = returned[1]

\* a text with two notes parsed, another text parsed, the first parsed again
C23_Witness ==
    /\ Len(results) = 2
    /\ results[1].text = input
    /\ results[2].text /= input
    /\ results[2].result.err = ""
    /\ results[2].result.notes /= <<>>
    /\ returned /= None
    /\ returned[1].err = ""
    /\ Len(returned[1].notes) = 2

\* ------------------------------------------------------------------------
\* Properties of the loop of watch (SpecQueue)
\* ------------------------------------------------------------------------
IsPrefix(short, long) ==
    /\ Len(short) <= Len(long)
    /\ SubSeq(long, 1, Len(short)) = short

\* C24: the loop takes an event from the channel only when no pass is
\* running; an event sent while a pass runs waits in the channel until the
\* pass has returned; a pass starts only when the pass before it is over,
\* and the State is written by the running pass only.
C24_PassesAreSequential ==
    /\ [][Len(rx') < Len(rx)
            => /\ where = "rx"
               /\ pass = NoPass
               /\ rx' = Tail(rx)]_vars
    /\ [][where /= "rx" => IsPrefix(rx, rx')]_vars
    /\ [][(pass'.result = "running" /\ pass.result /= "running")
            => pass = NoPass /\ where \in {"main", "rx"}]_vars
    /\ [][state' /= state
            => /\ pass'.result \in {"running", "err"}
               /\ where \in {"main", "update_change", "reload", "notes"}
               /\ rx' = rx]_vars
    /\ [](InPass => pass /= NoPass)
    /\ [](where \in {"main", "rx"} => pass = NoPass)

\* an event waits in the channel while a pass of the loop, which has
\* created a note, is still running
C24_Witness ==
    /\ where = "notes"
    /\ ~first
    /\ rx /= <<>>
    /\ notes /= <<>>
    /\ Len(pass.calls) = 1

\* ------------------------------------------------------------------------
\* Properties of the loop over the notes of a pass (Spec)
\* ------------------------------------------------------------------------
\* C25: the loop takes the notes from the head of the parsed list; at a note
\* with an unknown deck, an unknown model or a field its model does not have
\* the pass returns with no call for that note and nothing appended to
\* added_notes; the notes behind it stay untaken, and nothing is called or
\* appended until another pass starts.
C25_PassStopsAtInvalidNote ==
    /\ [][NoteStep => notes' \in {notes, Tail(notes)}]_vars
    /\ [][(NoteStep /\ Invalid(state, Head(notes)))
            => /\ where' = "returned"
               /\ pass' = [pass EXCEPT !.result = "invalid"]
               /\ notes' = notes
               /\ state' = state
               /\ remote' = remote]_vars
    /\ [](pass.result = "invalid"
            => /\ where = "returned"
               /\ notes /= <<>>
               /\ Invalid(state, Head(notes)))
    /\ [][pass.result = "invalid"
            => /\ pass' \in {pass, NoPass}
               /\ state' = state
               /\ notes' \in {notes, <<>>}]_vars

\* the pass has stopped at its first note, with a valid note that no note of
\* added_notes is equivalent to behind it
C25_Witness ==
    /\ pass.result = "invalid"
    /\ pass.calls = <<>>
    /\ pass.skips = 0
    /\ Len(notes) = 2
    /\ ~Contains(state.deck_names, notes[1].deck)
    /\ ~Invalid(state, notes[2])
    /\ ~HasEquivalent(state.added_notes, Prepared(notes[2], add_generated))

\* C27: the tags of every note a pass hands to add_note, and of every note
\* a pass has pushed to added_notes, are pairwise distinct, the tag
\* generated included.
C27_TagsDistinctWithGenerated ==
    /\ \A i \in 1..Len(pass.calls) : Distinct(pass.calls[i].note.tags)
    /\ \A n \in created : Distinct(n.tags)

\* add_note has returned None in this step
ReturnedNone ==
    /\ Len(pass'.calls) = Len(pass.calls) + 1
    /\ pass'.calls[Len(pass'.calls)].ret = "none"

\* C30: when add_note returns None the pass goes on with the next note: the
\* note is pushed to added_notes with no id, the counter of the notes added
\* is left as it is, and the remote store is not changed; the counter is at
\* every moment of the loop, and when the summary is logged, the number of
\* calls of the pass that returned an id.
C30_RejectedNoteIsKeptNotCounted ==
    /\ [][ReturnedNone
            => /\ where' = "notes"
               /\ pass'.result = "running"
               /\ notes' = Tail(notes)
               /\ added' = added
               /\ remote' = remote
               /\ state'.added_notes
                    = Append(state.added_notes,
                             [Prepared(Head(notes), add_generated)
                                EXCEPT !.id = None])]_vars
    /\ []((where = "notes" \/ (where = "returned" /\ pass.result = "ok"))
            => added = Cardinality({i \in 1..Len(pass.calls) :
                                       pass.calls[i].ret = "id"}))

\* a pass that has returned Ok: its first call returned None, its second an id
C30_Witness ==
    /\ where = "returned"
    /\ pass.result = "ok"
    /\ Len(pass.calls) = 2
    /\ pass.calls[1].ret = "none"
    /\ pass.calls[2].ret = "id"
    /\ added = 1

\* ------------------------------------------------------------------------
\* Properties of the scanner on block-form fields (SpecScan)
\* ------------------------------------------------------------------------
\* the text between header and footer
Body == Frame(input, Header).body

\* the positions of a text a command can start at
Backslashes(text) == {j \in 1..Len(text) : text[j] = "\\"}

\* the pattern matches at j, and no match of the same pattern that starts
\* before j reaches over j
Occurs(text, p, j) ==
    /\ MatchAt(p, text, j).ok
    /\ \A k \in {x \in Backslashes(text) : x < j} :
          MatchAt(p, text, k).ok => MatchAt(p, text, k).end <= j

\* the block-form fields of a text: where each one starts, and where its
\* value starts and ends
BlockFields(text) ==
    { LET m == MatchFIELD_ENV(text, s)
      IN  [start |-> s,
           from |-> m.end - Len(LitEndField) - Len(m.cap[2]),
           to |-> m.end - Len(LitEndField) - 1] :
        s \in {x \in Backslashes(text) : Occurs(text, "FIELD_ENV", x)} }

\* position j lies in the value of one of the blocks
InBlockValue(blocks, j) == \E b \in blocks : b.from <= j /\ j <= b.to

TokenOf(text, p, j) ==
    [start |-> j - 1, cmd |-> CmdOf(p), cap |-> MatchAt(p, text, j).cap]

LastNoteOf(b) == b.completed_notes[Len(b.completed_notes)]

HasToken(ms, tok) == \E i \in 1..Len(ms) : ms[i] = tok

\* C32: the patterns are matched independently over the whole body and no
\* overlap between patterns is removed: the scanner returns a Field token
\* for every block-form field, and also a token of its own for every
\* command that occurs inside the value of the block; the loop applies that
\* token as any other, so that a \next inside a block field completes the
\* note in progress and a \tag or \deck inside it changes the accumulator.
C32_CommandsInsideBlockFieldAreTokens ==
    /\ [][matches = None /\ matches' /= None =>
            LET text == Body
                blocks == BlockFields(text)
            IN  /\ \A b \in blocks :
                      HasToken(matches'[1], TokenOf(text, "FIELD_ENV", b.start))
                /\ \A j \in {x \in Backslashes(text) : InBlockValue(blocks, x)} :
                      \A p \in {"NEXT", "DECK", "MODEL", "TAG", "FIELD"} :
                          Occurs(text, p, j) =>
                              HasToken(matches'[1], TokenOf(text, p, j))]_vars
    /\ [][(/\ pos' = pos + 1
           /\ builder'.err = ""
           /\ token'[1].cmd \in {"Next", "Tag", "Deck"}
           /\ InBlockValue(BlockFields(Body), token'[1].start + 1)) =>
            /\ token'[1].cmd = "Next" =>
                  /\ Len(builder'.completed_notes)
                        = Len(builder.completed_notes) + 1
                  /\ LastNoteOf(builder').fields = builder.current_fields
            /\ token'[1].cmd = "Tag" =>
                  builder'.current_tags
                      = Append(builder.current_tags, token'[1].cap[1])
            /\ token'[1].cmd = "Deck" =>
                  builder'.current_deck = Some(token'[1].cap[1])]_vars

\* get_content has returned two notes for a text with one \next outside any
\* field: the second note was completed by the \next in the value of the
\* block field K, and that value, the \next in it, is a field of the note
C32_Witness ==
    /\ returned /= None
    /\ returned[1].err = ""
    /\ Len(returned[1].notes) = 2
    /\ token[1].cmd = "Next"
    /\ InBlockValue(BlockFields(Body), token[1].start + 1)
    /\ returned[1].notes[2].fields = (<<"K">> :> LitNext)

\* ------------------------------------------------------------------------
\* Properties of the recorded fingerprint (SpecWalk)
\* ------------------------------------------------------------------------
\* update_change has read a regular file and has not returned to watch
HasRead == content /= 0

\* C31: the session records one fingerprint, state.last_hash, and not one
\* per file. Once a pass has read a regular file, the recorded fingerprint
\* is the fingerprint of the content it read, and it stays so until the
\* pass is over, whether the pass goes on to its end, is short-circuited
\* (the value was there already) or fails at the metadata refresh, at the
\* parsing or at the validation. The fingerprint is written by the read
\* alone, before the first remote call and before get_content. In the walk
\* of a directory the read of each child leaves the fingerprint of that
\* child in the place of the one the child before left.
C31_OneFingerprintWrittenAtRead ==
    /\ [](HasRead => state.last_hash = Fingerprint(Docs[content]))
    /\ [](where \in {"reload", "get_content", "notes"} => HasRead)
    /\ [][state'.last_hash /= state.last_hash =>
            /\ where = "update_change"
            /\ where' = "reload"
            /\ ~HasRead
            /\ pass'.remote_calls = 0
            /\ pass'.parsed = 0]_vars
    /\ [][(child > 0 /\ ~HasRead /\ content' /= 0) =>
            /\ state'.last_hash = Fingerprint(Docs[dir[child]])
            /\ where' = "returned" <=>
                  state.last_hash = Fingerprint(Docs[dir[child]])]_vars

\* a walk the loop of watch has started is at its second child, whose
\* content is not that of the first: the pass over the second child has
\* failed at the metadata refresh, and the recorded fingerprint is the one
\* of the second child
C31_Witness ==
    /\ ~first
    /\ child = 2
    /\ dir[1] /= dir[2]
    /\ where = "returned"
    /\ pass.result = "err"
    /\ pass.remote_calls = 1
    /\ HasRead
    /\ state.last_hash = Fingerprint(Docs[dir[2]])
    /\ state.last_hash /= Fingerprint(Docs[dir[1]])

====
